---- MODULE Spec2Model ----
(***************************************************************************)
(* A model of the entry registry (EntryManager) and of the execution       *)
(* engine (EntryExecutionService, ScriptExecutionService,                  *)
(* JavaScriptExecutionEngine, ExecutionLogService) of Demo_Vue3_Sample2.   *)
(*                                                                         *)
(* Entries are identified by their id: the model has one entry object per  *)
(* id, of a fixed type, as the ids the application generates are unique.   *)
(* Array indexes in operation arguments are the 0-based indexes of the     *)
(* JavaScript code; sequences of the model are 1-based.                    *)
(***************************************************************************)
EXTENDS Integers, Sequences, FiniteSets, TLC

VARIABLES
  entriesById,     \* EntryManager._entriesById: the set of its keys (the value of a key is the entry object of that id)
  parentIdById,    \* EntryManager._parentIdById: child id -> parent id, NULL where the map has no key
  children,        \* the children array of every container object
  lastCall,        \* the last EntryManager call: its name, its entry id argument and what it returned
  callsChecked,    \* whether every addEntry and moveEntry call so far was made with a checked target (see TargetChecked)
  executionStack,      \* EntryExecutionService._executionStack
  executionSequence,   \* EntryExecutionService._executionSequence
  rootExecutions,      \* ExecutionLogService._executionsTree.value.rootExecutions
  executionsByParent,  \* ExecutionLogService._executionsTree.value.executionsByParent
  worker,              \* JavaScriptExecutionEngine.worker: "worker" or NULL
  workerDisabled,      \* JavaScriptExecutionEngine.workerDisabled
  executionCounter,    \* JavaScriptExecutionEngine.executionCounter
  pendingExecutions,   \* JavaScriptExecutionEngine.pendingExecutions: request id -> the call whose block awaits it
  calls,               \* the top-level executeEntry calls made so far, each with the executeEntry invocations it is in
  pops,                \* per executeEntry invocation (by sequence number): how often it has called _executionStack.pop()
  isExecuting,         \* per entry with a play button: the isExecuting ref of its component's useEntryExecution()
  played,              \* per entry with a play button: the call its component's executeEntry awaits, 0 if none
  logRun,              \* the executions whose records the log is given, when the log is looked at alone (see LogRun)
  promises,            \* the promises executeScript has returned, when the engine is looked at alone (see Promise)
  requests,            \* the requests posted to the worker that it has not answered yet
  lastEvent,           \* the engine's last step: what was called or handled, and what was pending before it
  liveWorkers,         \* the Worker objects the engine has made and not terminated, when the engine is looked at alone
  dragDropState,       \* the drag in progress: dragDropState's isDragging and draggedItemIds, and the event's dataTransfer
  lastDrop             \* the last call a drop handler made: its name, target container and entry, and the entry's descendants

regVars == <<entriesById, parentIdById, children, lastCall, callsChecked>>

execVars == <<executionStack, executionSequence, rootExecutions, executionsByParent,
              worker, workerDisabled, executionCounter, pendingExecutions, calls, pops>>

playVars == <<isExecuting, played>>

logVars == <<logRun>>

engVars == <<promises, requests, lastEvent>>

dragVars == <<dragDropState, lastDrop>>

\* What the EntryManager's methods leave alone.
outsideReg == <<execVars, playVars, logVars, engVars, liveWorkers, dragVars>>

\* What the execution service, with the engine and the log under it, leaves alone.
outsideExec == <<regVars, playVars, logVars, engVars, liveWorkers, dragVars>>

\* What the play buttons leave alone, besides what they execute.
outsidePlay == <<regVars, logVars, engVars, liveWorkers, dragVars>>

vars == <<entriesById, parentIdById, children, lastCall, callsChecked,
          executionStack, executionSequence, rootExecutions, executionsByParent,
          worker, workerDisabled, executionCounter, pendingExecutions, calls, pops,
          isExecuting, played, logRun, promises, requests, lastEvent, liveWorkers,
          dragDropState, lastDrop>>

\* ------------------------------------------------------------------ bounds

\* Longest children array built by the calls with arbitrary arguments (which can
\* put an entry into an array more than once).
MaxChildren == 2

\* Most top-level executeEntry calls made on the service.
MaxCalls == 2

\* Most children of the container whose execution the log is given when it is looked
\* at alone.
MaxWidth == 2010

\* Top-level block executions made before the container's, in one of the runs the log
\* is given.
BlocksFirst == 950

\* The engine alone is given at most MaxScripts executeScript calls.
MaxScripts == 3

\* initialize() is called on the engine while fewer than MaxWorkers workers are live.
MaxWorkers == 2

\* ------------------------------------------------------------------ entries

NULL == "null"

Containers == {"c1", "c2"}

Blocks == {"b1", "b2"}

Ids == Containers \cup Blocks

\* entry.type
Type(id) == IF id \in Containers THEN "container" ELSE "block"

\* entry.name: what the dragged icon of the side area is labelled with. The blocks
\* are the ones made from the icons Hello and World, c1 is the container MainArea
\* makes (the root of the tree), c2 one made from the Container icon.
Name(id) ==
  CASE id = "b1" -> "Hello"
    [] id = "b2" -> "World"
    [] id = "c1" -> "main-area"
    [] OTHER -> "Container"

\* The ids the calls with arbitrary arguments are made with.
AnyIds == {"c1", "c2", "b1"}

\* Index arguments of the calls with arbitrary arguments: negative, in range, out of range.
Indexes == (0 - 1) .. (MaxChildren + 1)

\* ------------------------------------------------------------------ arrays

Min(a, b) == IF a < b THEN a ELSE b

Max(a, b) == IF a > b THEN a ELSE b

\* Array.prototype.findIndex(child => child.id === id): 0-based, -1 when absent.
RECURSIVE FindIndexFrom(_, _, _)
FindIndexFrom(s, id, i) ==
  IF i > Len(s) THEN 0 - 1
  ELSE IF s[i] = id THEN i - 1
  ELSE FindIndexFrom(s, id, i + 1)

FindIndex(s, id) == FindIndexFrom(s, id, 1)

\* Array.prototype.splice(start, ...): how JavaScript clamps the start index.
SpliceStart(start, len) ==
  IF start < 0 THEN Max(len + start, 0) ELSE Min(start, len)

\* s.splice(start, 1): the array without the element at 0-based position start.
SpliceRemove(s, start) ==
  LET k == SpliceStart(start, Len(s))
  IN  [i \in 1 .. (IF k < Len(s) THEN Len(s) - 1 ELSE Len(s)) |->
         IF i <= k THEN s[i] ELSE s[i + 1]]

\* s.splice(start, 0, x): the array with x inserted at 0-based position start.
SpliceInsert(s, start, x) ==
  LET k == SpliceStart(start, Len(s))
  IN  [i \in 1 .. (Len(s) + 1) |->
         IF i <= k THEN s[i] ELSE IF i = k + 1 THEN x ELSE s[i - 1]]

\* How often id occurs in the array s.
Occurrences(s, id) == Cardinality({i \in 1 .. Len(s) : s[i] = id})

\* ------------------------------------------------------------------ EntryManager

\* The registry's state as one value, and the same with a return value: "true",
\* "false", or "threw" for a call that ended with an exception.
Registry == [ent |-> entriesById, par |-> parentIdById, ch |-> children]

Returning(r, value) == [ent |-> r.ent, par |-> r.par, ch |-> r.ch, ret |-> value]

\* _registerEntry(entry): false for a missing entry, else the entry is set in the map.
RegisterEntry(r, entry) ==
  IF entry = NULL THEN Returning(r, "false")
  ELSE Returning([r EXCEPT !.ent = @ \cup {entry}], "true")

\* _detachEntry(entry)
DetachEntry(r, entry) ==
  LET parentId == r.par[entry]
  IN  IF parentId = NULL THEN Returning(r, "true")
      ELSE IF parentId \notin r.ent \/ Type(parentId) # "container"
        THEN Returning(r, "false")
      ELSE LET index == FindIndex(r.ch[parentId], entry)
           IN  IF index = 0 - 1 THEN Returning(r, "false")
               ELSE Returning(
                      [r EXCEPT !.ch[parentId] = SpliceRemove(@, index),
                                !.par[entry] = NULL],
                      "true")

\* _removeDescendants(entry). st.threw: the recursion did not end (a container that
\* is its own descendant is entered again with its children array as it was), which
\* JavaScript ends with a RangeError; a path longer than the number of ids repeats
\* a container.
RECURSIVE RemoveDescendants(_, _, _), RemoveChildrenFrom(_, _, _, _)
RemoveDescendants(st, entry, depth) ==
  IF st.threw THEN st
  ELSE IF depth > Cardinality(Ids) THEN [st EXCEPT !.threw = TRUE]
  ELSE LET after == RemoveChildrenFrom(st, entry, 1, depth)
       IN  IF after.threw THEN after ELSE [after EXCEPT !.ch[entry] = <<>>]

\* The loop of _removeDescendants over entry.children, from its i-th element on.
RemoveChildrenFrom(st, entry, i, depth) ==
  IF st.threw \/ i > Len(st.ch[entry]) THEN st
  ELSE LET child == st.ch[entry][i]
           unlinked == [st EXCEPT !.par[child] = NULL]
           below == IF Type(child) = "container"
                      THEN RemoveDescendants(unlinked, child, depth + 1)
                      ELSE unlinked
           deleted == IF below.threw THEN below
                      ELSE [below EXCEPT !.ent = @ \ {child}]
       IN  RemoveChildrenFrom(deleted, entry, i + 1, depth)

\* addEntry that puts the entry in front of the parent's children whatever the index
\* is: a faulty variant.
AddEntryAtFront(r, parentId, entry, index) ==
  IF parentId = NULL THEN RegisterEntry(r, entry)
  ELSE IF parentId \notin r.ent \/ Type(parentId) # "container"
    THEN Returning(r, "false")
  ELSE IF entry = NULL THEN Returning(r, "threw")
  ELSE Returning([r EXCEPT !.ent = @ \cup {entry},
                           !.par[entry] = parentId,
                           !.ch[parentId] = <<entry>> \o @],
                 "true")

\* addEntry(parentId, entry, index). An entry of null makes entry.id throw.
AddEntry(r, parentId, entry, index) ==
  IF parentId = NULL THEN RegisterEntry(r, entry)
  ELSE IF parentId \notin r.ent \/ Type(parentId) # "container"
    THEN Returning(r, "false")
  ELSE IF entry = NULL THEN Returning(r, "threw")
  ELSE LET registered == [r EXCEPT !.ent = @ \cup {entry},
                                   !.par[entry] = parentId]
       IN  IF index >= 0 /\ index <= Len(r.ch[parentId])
             THEN Returning(
                    [registered EXCEPT !.ch[parentId] = SpliceInsert(@, index, entry)],
                    "true")
             ELSE Returning(registered, "false")

\* removeEntry that, for an entry without a parent, deletes the entry: a faulty
\* variant.
RemoveEntryOfRoots(r, entryId) ==
  IF r.par[entryId] = NULL
    THEN Returning([r EXCEPT !.ent = @ \ {entryId}],
                   IF entryId \in r.ent THEN "true" ELSE "false")
    ELSE Returning(r, "false")

\* removeEntry(entryId)
RemoveEntry(r, entryId) ==
  LET parentId == r.par[entryId]
  IN  IF parentId = NULL THEN Returning(r, "false")
      ELSE IF parentId \notin r.ent \/ Type(parentId) # "container"
        THEN Returning(r, "false")
      ELSE IF entryId \notin r.ent THEN Returning(r, "false")
      ELSE LET index == FindIndex(r.ch[parentId], entryId)
           IN  IF index = 0 - 1 THEN Returning(r, "false")
               ELSE LET unlinked == [ent |-> r.ent,
                                     par |-> [r.par EXCEPT ![entryId] = NULL],
                                     ch |-> [r.ch EXCEPT ![parentId] = SpliceRemove(@, index)],
                                     threw |-> FALSE]
                        removed == IF Type(entryId) = "container"
                                     THEN RemoveDescendants(unlinked, entryId, 1)
                                     ELSE unlinked
                    IN  Returning(removed, IF removed.threw THEN "threw" ELSE "true")

\* reorderEntry with the index taken as it is, not lowered by one when the entry comes
\* from before it: a faulty variant, which C4 must tell from reorderEntry.
ReorderEntryNoShift(r, parentId, entryId, index) ==
  IF parentId \notin r.ent \/ Type(parentId) # "container"
    THEN Returning(r, "false")
  ELSE LET currentIndex == FindIndex(r.ch[parentId], entryId)
       IN  IF currentIndex # 0 - 1
             THEN Returning(
                    [r EXCEPT !.ch[parentId] =
                       SpliceInsert(SpliceRemove(@, currentIndex), index, entryId)],
                    "true")
             ELSE Returning(r, "false")

\* reorderEntry that puts the child back only at an index within the array, as
\* addEntry does: a faulty variant, which loses the child otherwise.
ReorderEntryInRange(r, parentId, entryId, index) ==
  IF parentId \notin r.ent \/ Type(parentId) # "container"
    THEN Returning(r, "false")
  ELSE LET currentIndex == FindIndex(r.ch[parentId], entryId)
           targetIndex == IF index > currentIndex THEN index - 1 ELSE index
           removed == SpliceRemove(r.ch[parentId], currentIndex)
       IN  IF currentIndex = 0 - 1 THEN Returning(r, "false")
           ELSE IF targetIndex >= 0 /\ targetIndex <= Len(removed)
             THEN Returning([r EXCEPT !.ch[parentId] =
                               SpliceInsert(removed, targetIndex, entryId)],
                            "true")
           ELSE Returning([r EXCEPT !.ch[parentId] = removed], "false")

\* reorderEntry(parentId, entryId, index)
ReorderEntry(r, parentId, entryId, index) ==
  IF parentId \notin r.ent \/ Type(parentId) # "container"
    THEN Returning(r, "false")
  ELSE LET currentIndex == FindIndex(r.ch[parentId], entryId)
           targetIndex == IF index > currentIndex THEN index - 1 ELSE index
       IN  IF currentIndex # 0 - 1
             THEN Returning(
                    [r EXCEPT !.ch[parentId] =
                       SpliceInsert(SpliceRemove(@, currentIndex), targetIndex, entryId)],
                    "true")
             ELSE Returning(r, "false")

\* moveEntry without its _detachEntry call: a faulty variant.
MoveEntryNoDetach(r, entryId, newParentId, index) ==
  IF entryId \notin r.ent THEN Returning(r, "false")
  ELSE AddEntry(r, newParentId, entryId, index)

\* moveEntry(entryId, newParentId, index): what _detachEntry returns is not looked at.
MoveEntry(r, entryId, newParentId, index) ==
  IF entryId \notin r.ent THEN Returning(r, "false")
  ELSE LET detached == DetachEntry(r, entryId)
       IN  AddEntry([ent |-> detached.ent, par |-> detached.par, ch |-> detached.ch],
                    newParentId, entryId, index)

\* ------------------------------------------------------------------ descendants

\* getAllDescendantIds(entryId): the id, and for a registered container the ids its
\* children give. The code recurses for as long as there are children, which ends
\* when no container is its own descendant; depth cuts the recursion where the
\* code's would not end.
RECURSIVE DescendantIdsFrom(_, _, _)
DescendantIdsFrom(r, entryId, depth) ==
  IF entryId \notin r.ent \/ Type(entryId) # "container" \/ depth > Cardinality(Ids)
    THEN {entryId}
    ELSE {entryId} \cup
         UNION {DescendantIdsFrom(r, r.ch[entryId][i], depth + 1) :
                  i \in 1 .. Len(r.ch[entryId])}

\* getAllDescendantIds without its recursion, giving the entry's id alone: a faulty
\* variant, which C2 must tell from getAllDescendantIds.
OwnIdOnly(r, entryId) == {entryId}

\* getAllDescendantIds that looks at the entry's own children and no further: a
\* faulty variant.
ChildrenOnly(r, entryId) ==
  IF entryId \notin r.ent \/ Type(entryId) # "container"
    THEN {entryId}
    ELSE {entryId} \cup {r.ch[entryId][i] : i \in 1 .. Len(r.ch[entryId])}

\* getAllDescendantIds(entryId): the id and the ids of all entries under it.
GetAllDescendantIds(r, entryId) == DescendantIdsFrom(r, entryId, 1)

\* Whether the recursion of getAllDescendantIds(entryId) ends: it goes into every
\* child of a registered container, with nothing to tell it where it has been, so
\* it ends unless it comes to a container again below itself; a path of more
\* containers than there are ids has come to one again, and the code goes on until
\* the call stack overflows.
RECURSIVE DescendantIdsEndFrom(_, _, _)
DescendantIdsEndFrom(r, entryId, depth) ==
  IF entryId \notin r.ent \/ Type(entryId) # "container" THEN TRUE
  ELSE IF depth > Cardinality(Ids) THEN FALSE
  ELSE \A i \in 1 .. Len(r.ch[entryId]) :
         DescendantIdsEndFrom(r, r.ch[entryId][i], depth + 1)

GetAllDescendantIdsEnds(r, entryId) == DescendantIdsEndFrom(r, entryId, 1)

\* The ids reached from id by one or more children links.
RECURSIVE ReachedFrom(_, _, _)
ReachedFrom(ch, frontier, rounds) ==
  LET step == frontier \cup
              {x \in Ids : \E c \in frontier \cap Containers :
                             \E i \in 1 .. Len(ch[c]) : ch[c][i] = x}
  IN  IF rounds = 0 \/ step = frontier THEN frontier
      ELSE ReachedFrom(ch, step, rounds - 1)

ChildIds(ch, id) ==
  IF id \in Containers THEN {ch[id][i] : i \in 1 .. Len(ch[id])} ELSE {}

IsOwnAncestor(ch, id) ==
  id \in ReachedFrom(ch, ChildIds(ch, id), Cardinality(Ids))

\* ------------------------------------------------------------------ drag and drop

\* dragDropState with the dataTransfer of the drag: entryId and sourceId are NULL
\* where getData gives '' or the drag is over.
DragDropState(isDragging, draggedItemIds, entryId, sourceId) ==
  [isDragging |-> isDragging, draggedItemIds |-> draggedItemIds,
   entryId |-> entryId, sourceId |-> sourceId]

NoDrag == DragDropState(FALSE, {}, NULL, NULL)

\* A call of a drop handler: descendants is what getAllDescendantIds gives for the
\* entry when the call is made.
Drop(op, target, entry, descendants) ==
  [op |-> op, target |-> target, entry |-> entry, descendants |-> descendants]

NoDrop == Drop("none", NULL, NULL, {})

\* ------------------------------------------------------------------ registry actions

\* Whether a call that puts entry under parentId was made with a parent that is
\* not the entry or one of its descendants: what the drag start handlers compute
\* with getAllDescendantIds before a drop is accepted.
TargetChecked(r, parentId, entry) ==
  parentId = NULL \/ parentId \notin GetAllDescendantIds(r, entry)

\* The registry after a call that returned res.
Called(res, op, id, checked) ==
  /\ entriesById' = res.ent
  /\ parentIdById' = res.par
  /\ children' = res.ch
  /\ lastCall' = [op |-> op, id |-> id, ret |-> res.ret]
  /\ callsChecked' = (callsChecked /\ checked)
  /\ UNCHANGED outsideReg

\* The same, as long as no children array outgrows the bound.
Apply(res, op, id, checked) ==
  /\ \A c \in Containers : Len(res.ch[c]) <= MaxChildren
  /\ Called(res, op, id, checked)

\* Calls with arbitrary arguments.
DoAddEntry ==
  \E parentId \in AnyIds \cup {NULL}, entry \in AnyIds \cup {NULL}, index \in Indexes :
    Apply(AddEntry(Registry, parentId, entry, index), "addEntry", entry,
          TargetChecked(Registry, parentId, entry))

DoRemoveEntry ==
  \E entryId \in AnyIds :
    Apply(RemoveEntry(Registry, entryId), "removeEntry", entryId, TRUE)

DoReorderEntry ==
  \E parentId \in AnyIds, entryId \in AnyIds, index \in Indexes :
    Apply(ReorderEntry(Registry, parentId, entryId, index), "reorderEntry", entryId, TRUE)

DoMoveEntry ==
  \E entryId \in AnyIds, newParentId \in AnyIds \cup {NULL}, index \in Indexes :
    Apply(MoveEntry(Registry, entryId, newParentId, index), "moveEntry", entryId,
          TargetChecked(Registry, newParentId, entryId))

\* Calls as the drop and remove handlers of the components make them: a new entry
\* is added at a drop area of a registered container, a placed entry is reordered
\* in its parent or moved to a drop area of another container that is not among
\* its descendants: the drops on the areas that isDroppable marks active (OnDrop has
\* the drops on any area).
TreeRegister ==
  \E entry \in Containers :
    /\ entry \notin entriesById
    /\ Called(AddEntry(Registry, NULL, entry, 0), "addEntry", entry, TRUE)

TreeAddEntry ==
  \E parentId \in entriesById \cap Containers, entry \in Ids \ entriesById :
    \E index \in 0 .. Len(children[parentId]) :
      Called(AddEntry(Registry, parentId, entry, index), "addEntry", entry, TRUE)

TreeRemoveEntry ==
  \E entryId \in Ids :
    Called(RemoveEntry(Registry, entryId), "removeEntry", entryId, TRUE)

TreeReorderEntry ==
  \E entryId \in entriesById :
    /\ parentIdById[entryId] # NULL
    /\ \E index \in 0 .. Len(children[parentIdById[entryId]]) :
         Called(ReorderEntry(Registry, parentIdById[entryId], entryId, index),
                "reorderEntry", entryId, TRUE)

TreeMoveEntry ==
  \E entryId \in entriesById, newParentId \in entriesById \cap Containers :
    /\ parentIdById[entryId] # NULL
    /\ newParentId # parentIdById[entryId]
    /\ TargetChecked(Registry, newParentId, entryId)
    /\ \E index \in 0 .. Len(children[newParentId]) :
         Called(MoveEntry(Registry, entryId, newParentId, index), "moveEntry",
                entryId, TRUE)

\* ------------------------------------------------------------------ script results

\* JavaScript values a script run can give and the execution service can return:
\* null, undefined, an Error with a message, or an object with its success and
\* errorMessage properties (each "undefined" where the object has no such property).
Undefined == "undefined"

NullValue == [kind |-> "null", success |-> Undefined, errorMessage |-> Undefined]

UndefinedValue == [kind |-> "undefined", success |-> Undefined, errorMessage |-> Undefined]

Object(success, errorMessage) ==
  [kind |-> "object", success |-> success, errorMessage |-> errorMessage]

ErrorValue(message) ==
  [kind |-> "error", success |-> Undefined, errorMessage |-> message]

\* {}
EmptyObject == Object(Undefined, Undefined)

\* What a script's execute function returns: an object with success true or false,
\* an object without success, an object whose success is not a boolean, null, or
\* nothing.
ScriptValues ==
  {Object("true", Undefined), Object("false", Undefined), EmptyObject,
   Object("yes", Undefined), NullValue, UndefinedValue}

\* How a call of the runner settles: resolved with a value, or rejected with an Error.
Resolved(value) == [kind |-> "resolve", value |-> value]

Rejected(message) == [kind |-> "reject", value |-> ErrorValue(message)]

RunnerOutcomes == {Resolved(v) : v \in ScriptValues} \cup {Rejected("Script failed")}

\* The options argument of _normalizeResult; hasChildResults: whether it has a
\* childResults property.
Options(success, errorMessage, hasChildResults, childResults) ==
  [success |-> success, errorMessage |-> errorMessage,
   hasChildResults |-> hasChildResults, childResults |-> childResults]

\* childResults.some(...) in the place of every: a faulty variant, which C7 must
\* tell from every.
Some(childResults) ==
  IF \E i \in 1 .. Len(childResults) : childResults[i].success = "true"
    THEN "true" ELSE "false"

\* childResults.every(childResult => childResult.success === true)
Every(childResults) ==
  IF \A i \in 1 .. Len(childResults) : childResults[i].success = "true"
    THEN "true" ELSE "false"

\* What a function body gives: a value it returns or an error it throws.
Returned(value) == [threw |-> FALSE, value |-> value]

Thrown(message) == [threw |-> TRUE, value |-> ErrorValue(message)]

\* _normalizeResult(result = {}, options = {}): the default applies to undefined
\* only; reading a property of null throws inside the try, and the assignment in
\* the catch block throws again, out of the function.
NormalizeResult(result, options) ==
  IF result.kind = "null" THEN Thrown("Cannot set properties of null")
  ELSE LET newResult == IF result.kind = "undefined" THEN EmptyObject ELSE result
           success ==
             IF options.success # Undefined THEN options.success
             ELSE IF newResult.success = Undefined
               THEN IF options.hasChildResults
                      THEN Every(options.childResults)
                      ELSE "false"
             ELSE newResult.success
           errorMessage ==
             IF options.errorMessage # Undefined THEN options.errorMessage
             ELSE IF newResult.errorMessage = Undefined
               THEN IF success = "true" THEN "" ELSE "Unknown error occurred."
             ELSE newResult.errorMessage
       IN  Returned(Object(success, errorMessage))

\* _executeBlock(block), from the point where the runner's promise has settled.
ExecuteBlock(outcome) ==
  IF outcome.kind = "resolve"
    THEN NormalizeResult(outcome.value, Options(Undefined, Undefined, FALSE, <<>>))
    ELSE NormalizeResult(EmptyObject,
                         Options(Undefined, outcome.value.errorMessage, FALSE, <<>>))

\* _executeContainer(container, traceId), from the end of its loop over the children.
ExecuteContainer(childResults) ==
  NormalizeResult(EmptyObject, Options(Undefined, Undefined, TRUE, childResults))

\* _executeContainer(container, traceId), from its catch block.
ExecuteContainerCatch(error) ==
  NormalizeResult(EmptyObject, Options(Undefined, error.errorMessage, FALSE, <<>>))

\* ------------------------------------------------------------------ ExecutionLogService

\* this._maxLogs
MaxLogs == 1000

\* this._cleanupBatchSize
CleanupBatchSize == 100

\* A map with no key.
EmptyMap == [k \in {} |-> NULL]

\* map[key] = value
MapSet(map, key, value) ==
  [k \in DOMAIN map \cup {key} |-> IF k = key THEN value ELSE map[k]]

\* delete map[key]
MapDelete(map, key) == [k \in DOMAIN map \ {key} |-> map[k]]

\* The ids this._generateExecutionId gives: the session id is the same in all of them.
ExecutionId(seq, entryId) == [seq |-> seq, entryId |-> entryId]

\* null where an execution id is expected (traceId and parentExecutionId default to it).
NullId == ExecutionId(0, NULL)

\* The log's state as one value.
Logs(roots, byParent) == [roots |-> roots, byParent |-> byParent]

RECURSIVE SumOfLengths(_, _)
SumOfLengths(map, keys) ==
  IF keys = {} THEN 0
  ELSE LET k == CHOOSE x \in keys : TRUE
       IN  Len(map[k]) + SumOfLengths(map, keys \ {k})

\* _getExecutionCount()
GetExecutionCount(log) ==
  Len(log.roots) + SumOfLengths(log.byParent, DOMAIN log.byParent)

\* The execution ids ids with the ids of all records _removeExecution reaches from
\* them: those in their buckets, in the buckets of those, and so on.
RECURSIVE ReachedExecutions(_, _)
ReachedExecutions(byParent, ids) ==
  LET next == ids \cup
                UNION {{byParent[k][i].executionId : i \in 1 .. Len(byParent[k])} :
                         k \in ids \cap DOMAIN byParent}
  IN  IF next = ids THEN ids ELSE ReachedExecutions(byParent, next)

\* _removeExecution(executionId): the buckets of the execution and of everything
\* under it are deleted.
RemoveExecution(byParent, executionId) ==
  LET removed == ReachedExecutions(byParent, {executionId})
  IN  [k \in DOMAIN byParent \ removed |-> byParent[k]]

\* executions.forEach(e => this._removeExecution(e.executionId)), from the i-th on.
RemoveExecutions(byParent, executions, i) ==
  LET removed == ReachedExecutions(byParent,
                                   {executions[j].executionId : j \in i .. Len(executions)})
  IN  [k \in DOMAIN byParent \ removed |-> byParent[k]]

\* _cleanupExecutions(count)
CleanupExecutions(log, count) ==
  IF Len(log.roots) > 0 /\ count > 0
    THEN LET numberOfLogsToRemove == Min(count, Len(log.roots))
             removedExecutions == SubSeq(log.roots, 1, numberOfLogsToRemove)
         IN  Logs(SubSeq(log.roots, numberOfLogsToRemove + 1, Len(log.roots)),
                  RemoveExecutions(log.byParent, removedExecutions, 1))
    ELSE log

\* addLog(entry, executionId, parentExecutionId); the times of a record are left out.
AddLog(log, entry, executionId, parentExecutionId) ==
  LET execution == [executionId |-> executionId,
                    parentExecutionId |-> parentExecutionId,
                    entryId |-> entry,
                    entryName |-> Name(entry),
                    entryType |-> Type(entry),
                    result |-> NullValue]
      added ==
        IF parentExecutionId # NullId
          THEN Logs(log.roots,
                    MapSet(log.byParent, parentExecutionId,
                           IF parentExecutionId \in DOMAIN log.byParent
                             THEN Append(log.byParent[parentExecutionId], execution)
                             ELSE <<execution>>))
          ELSE Logs(Append(log.roots, execution), log.byParent)
  IN  IF GetExecutionCount(added) > MaxLogs
        THEN CleanupExecutions(added, CleanupBatchSize)
        ELSE added

\* The records of executions with result set in the one _findExecution finds: the
\* record of that id (an id is given to one record only).
SetResult(executions, executionId, result) ==
  [i \in 1 .. Len(executions) |->
     IF executions[i].executionId = executionId
       THEN [executions[i] EXCEPT !.result = result]
       ELSE executions[i]]

\* updateLog that makes a root record for an id it does not find: a faulty variant.
UpdateLogOrInsert(log, executionId, result) ==
  IF \/ \E i \in 1 .. Len(log.roots) : log.roots[i].executionId = executionId
     \/ \E k \in DOMAIN log.byParent :
          \E i \in 1 .. Len(log.byParent[k]) : log.byParent[k][i].executionId = executionId
    THEN Logs(SetResult(log.roots, executionId, result),
              [k \in DOMAIN log.byParent |-> SetResult(log.byParent[k], executionId, result)])
    ELSE Logs(Append(log.roots,
                     [executionId |-> executionId,
                      parentExecutionId |-> NullId,
                      entryId |-> executionId.entryId,
                      entryName |-> Name(executionId.entryId),
                      entryType |-> Type(executionId.entryId),
                      result |-> result]),
              log.byParent)

\* updateLog(executionId, result): a record that is not found is left alone.
UpdateLog(log, executionId, result) ==
  Logs(SetResult(log.roots, executionId, result),
       [k \in DOMAIN log.byParent |-> SetResult(log.byParent[k], executionId, result)])

\* ------------------------------------------------------------------ EntryExecutionService

\* One executeEntry invocation that has not returned yet. phase is where it stands:
\*   "awaitWorker"  a block whose request corr is pending in the engine
\*   "awaitDirect"  a block whose script runs on the direct path
\*   "settled"      a block whose runner promise has settled with out
\*   "awaitChild"   a container awaiting executeEntry of its child number idx
\*   "loop"         a container whose child number idx has returned
\*   "finishing"    a container whose _executeContainer has given body
Frame(entry, executionId, phase) ==
  [entry |-> entry, executionId |-> executionId, phase |-> phase, corr |-> 0,
   idx |-> 0, childResults |-> <<>>, out |-> Resolved(UndefinedValue),
   body |-> Returned(UndefinedValue)]

\* What the services hold, with the invocations (frames) of the call at work.
ExecState(frames) ==
  [stack |-> executionStack, seq |-> executionSequence,
   log |-> Logs(rootExecutions, executionsByParent),
   counter |-> executionCounter, pending |-> pendingExecutions,
   frames |-> frames, pops |-> pops]

\* Array.prototype.pop(): nothing happens on an empty array.
Pop(stack) == IF Len(stack) = 0 THEN stack ELSE SubSeq(stack, 1, Len(stack) - 1)

Top(frames) == frames[Len(frames)]

\* A counter that starts again at 1 after 2: a faulty variant of the sequence.
NextSequenceWrapping(seq) == (seq % 2) + 1

\* this._executionSequence++ of _generateExecutionId
NextSequence(seq) == seq + 1

\* executeEntry(entry, traceId) up to its first await: the push, the new execution
\* id, addLog, and the call of _executeBlock (to where the engine awaits the worker's
\* answer or the script module) or of _executeContainer (which calls executeEntry
\* of the first child at once, or returns if there is none). call: the top-level
\* call the invocation belongs to.
RECURSIVE Enter(_, _, _, _)
Enter(x, call, entry, traceId) ==
  LET seq == NextSequence(x.seq)
      executionId == ExecutionId(seq, entry)
      begun == [x EXCEPT !.stack = Append(@, entry),
                         !.seq = seq,
                         !.log = AddLog(@, entry, executionId, traceId),
                         !.pops = Append(@, 0)]
  IN  IF Type(entry) = "block"
        THEN IF ~workerDisabled /\ worker # NULL
               THEN LET id == x.counter + 1
                    IN  [begun EXCEPT
                           !.counter = id,
                           !.pending = MapSet(@, id, call),
                           !.frames = Append(@, [Frame(entry, executionId, "awaitWorker")
                                                   EXCEPT !.corr = id])]
               ELSE [begun EXCEPT
                       !.frames = Append(@, Frame(entry, executionId, "awaitDirect"))]
      ELSE IF Len(children[entry]) = 0
        THEN [begun EXCEPT
                !.frames = Append(@, [Frame(entry, executionId, "finishing")
                                        EXCEPT !.body = ExecuteContainer(<<>>)])]
      ELSE Enter([begun EXCEPT
                    !.frames = Append(@, [Frame(entry, executionId, "awaitChild")
                                            EXCEPT !.idx = 1])],
                 call, children[entry][1], executionId)

\* executeEntry's exit without the catch block, so that an error goes on to the
\* caller: a faulty variant, which C8 must tell from executeEntry.
ExecuteEntryExitNoCatch(x, executionId, body) ==
  LET logged == IF body.threw THEN x
                ELSE [x EXCEPT !.log = UpdateLog(@, executionId, body.value)]
      popped == [logged EXCEPT !.stack = Pop(@),
                               !.pops[executionId.seq] = @ + 1]
  IN  [x |-> popped,
       outcome |-> IF body.threw THEN [kind |-> "reject", value |-> body.value]
                   ELSE Resolved(body.value)]

\* executeEntry's exit with the pop at the end of the try block, not in a finally
\* block, so that an error skips it: a faulty variant, which C10 must tell from
\* executeEntry.
ExecuteEntryExitPopInTry(x, executionId, body) ==
  LET done == IF body.threw THEN x
              ELSE [x EXCEPT !.log = UpdateLog(@, executionId, body.value),
                             !.stack = Pop(@),
                             !.pops[executionId.seq] = @ + 1]
  IN  [x |-> done,
       outcome |-> Resolved(IF body.threw THEN EmptyObject ELSE body.value)]

\* executeEntry from the point where _executeBlock or _executeContainer has given
\* body: updateLog unless body is an error (which the catch block logs), the pop in
\* the finally block, and the return of result, which is still {} after an error.
ExecuteEntryExit(x, executionId, body) ==
  LET logged == IF body.threw THEN x
                ELSE [x EXCEPT !.log = UpdateLog(@, executionId, body.value)]
      popped == [logged EXCEPT !.stack = Pop(@),
                               !.pops[executionId.seq] = @ + 1]
  IN  [x |-> popped,
       outcome |-> Resolved(IF body.threw THEN EmptyObject ELSE body.value)]

\* A loop of _executeContainer that ends at the first child whose result has not
\* success true: a faulty variant.
DeliverStoppingAtFailure(frames, outcome) ==
  LET rest == SubSeq(frames, 1, Len(frames) - 1)
  IN  IF Len(rest) = 0 THEN rest
      ELSE [rest EXCEPT ![Len(rest)] =
              IF outcome.kind = "resolve" /\ outcome.value.success = "true"
                THEN [@ EXCEPT !.phase = "loop",
                               !.childResults = Append(@, outcome.value)]
                ELSE [@ EXCEPT !.phase = "finishing",
                               !.body = ExecuteContainer(
                                          Append(rest[Len(rest)].childResults,
                                                 outcome.value))]]

\* The invocation on top returns outcome to the _executeContainer awaiting it, if
\* there is one: a result is pushed to childResults, an error goes to the catch block.
Deliver(frames, outcome) ==
  LET rest == SubSeq(frames, 1, Len(frames) - 1)
  IN  IF Len(rest) = 0 THEN rest
      ELSE [rest EXCEPT ![Len(rest)] =
              IF outcome.kind = "resolve"
                THEN [@ EXCEPT !.phase = "loop",
                               !.childResults = Append(@, outcome.value)]
                ELSE [@ EXCEPT !.phase = "finishing",
                               !.body = ExecuteContainerCatch(outcome.value)]]

\* A top-level call: its invocations, innermost last, and how it has settled; entry
\* and root: what it was called with and the execution id it gave it; concurrent:
\* whether an earlier call was in flight when it was made.
Call(frames, concurrent) ==
  [frames |-> frames, status |-> "inflight", value |-> UndefinedValue,
   entry |-> frames[1].entry, root |-> frames[1].executionId,
   concurrent |-> concurrent]

InFlight(i) == calls[i].status = "inflight"

\* A call that goes on without an answer of the runner (on the microtask queue).
Runnable(i) ==
  /\ InFlight(i)
  /\ Top(calls[i].frames).phase \in {"settled", "loop", "finishing"}

NoneRunnable == \A i \in 1 .. Len(calls) : ~Runnable(i)

\* The services after x, with the calls as given.
SetExec(x, newCalls) ==
  /\ executionStack' = x.stack
  /\ executionSequence' = x.seq
  /\ rootExecutions' = x.log.roots
  /\ executionsByParent' = x.log.byParent
  /\ executionCounter' = x.counter
  /\ pendingExecutions' = x.pending
  /\ pops' = x.pops
  /\ calls' = newCalls

\* executeEntry(entry) called from outside, whatever else is in flight.
StartCall ==
  \E entry \in entriesById :
    /\ Len(calls) < MaxCalls
    /\ LET x == Enter(ExecState(<<>>), Len(calls) + 1, entry, NullId)
       IN  SetExec(x, Append(calls,
                             Call(x.frames, \E i \in 1 .. Len(calls) : InFlight(i))))
    /\ UNCHANGED <<worker, workerDisabled>>
    /\ UNCHANGED outsideExec

\* The next step of a call that can go on: an invocation returns, or a container
\* goes to its next child or ends its loop.
Resume ==
  \E i \in 1 .. Len(calls) :
    /\ Runnable(i)
    /\ LET frames == calls[i].frames
           f == Top(frames)
       IN  IF f.phase = "loop"
             THEN IF f.idx < Len(children[f.entry])
                    THEN LET x == Enter(
                                    ExecState([frames EXCEPT ![Len(frames)] =
                                                 [@ EXCEPT !.phase = "awaitChild",
                                                           !.idx = f.idx + 1]]),
                                    i, children[f.entry][f.idx + 1], f.executionId)
                         IN  SetExec(x, [calls EXCEPT ![i].frames = x.frames])
                    ELSE SetExec(ExecState(frames),
                                 [calls EXCEPT ![i].frames[Len(frames)] =
                                    [@ EXCEPT !.phase = "finishing",
                                              !.body = ExecuteContainer(f.childResults)]])
             ELSE LET body == IF f.phase = "settled" THEN ExecuteBlock(f.out) ELSE f.body
                      exit == ExecuteEntryExit(ExecState(frames), f.executionId, body)
                      rest == Deliver(frames, exit.outcome)
                  IN  SetExec(exit.x,
                              [calls EXCEPT ![i] =
                                 IF Len(rest) = 0
                                   THEN [@ EXCEPT !.frames = rest,
                                                  !.status = IF exit.outcome.kind = "resolve"
                                                               THEN "resolved" ELSE "rejected",
                                                  !.value = exit.outcome.value]
                                   ELSE [@ EXCEPT !.frames = rest]])
    /\ UNCHANGED <<worker, workerDisabled>>
    /\ UNCHANGED outsideExec

\* What terminate() works on: the engine's worker and pending requests and the
\* execution service's stack; threw: whether a call made on them has thrown.
Services ==
  [worker |-> worker, pendingExecutions |-> pendingExecutions,
   executionStack |-> executionStack, threw |-> FALSE]

\* terminate() of the engine without its if (this.worker): a faulty variant, whose
\* this.worker.terminate() throws when there is no worker.
EngineTerminateUnguarded(e) ==
  IF e.worker = NULL
    THEN [e EXCEPT !.threw = TRUE]
    ELSE [e EXCEPT !.worker = NULL, !.pendingExecutions = EmptyMap]

\* terminate() of the engine without its clear(): a faulty variant, which leaves the
\* requests pending.
EngineTerminateNoClear(e) ==
  IF e.worker # NULL THEN [e EXCEPT !.worker = NULL] ELSE e

\* terminate() of the engine: the worker, if there is one, is terminated and let go,
\* and the pending requests are forgotten (their promises never settle).
EngineTerminate(e) ==
  LET released == IF e.worker # NULL THEN [e EXCEPT !.worker = NULL] ELSE e
  IN  [released EXCEPT !.pendingExecutions = EmptyMap]

\* ScriptExecutionService.terminate()
ScriptServiceTerminate(s) == EngineTerminate(s)

\* EntryExecutionService.terminate(): the stack is emptied after the script service
\* has terminated, unless that threw.
EntryServiceTerminate(s) ==
  LET t == ScriptServiceTerminate(s)
  IN  IF t.threw THEN t ELSE [t EXCEPT !.executionStack = <<>>]

\* A call of EntryExecutionService.terminate(); the worker it lets go was terminated.
Terminate ==
  /\ worker' = EntryServiceTerminate(Services).worker
  /\ pendingExecutions' = EntryServiceTerminate(Services).pendingExecutions
  /\ executionStack' = EntryServiceTerminate(Services).executionStack
  /\ UNCHANGED <<executionSequence, rootExecutions, executionsByParent, workerDisabled,
                 executionCounter, calls, pops>>
  /\ liveWorkers' = IF worker # NULL THEN liveWorkers - 1 ELSE liveWorkers
  /\ UNCHANGED <<regVars, playVars, logVars, engVars, dragVars>>

\* ------------------------------------------------------------------ JavaScriptExecutionEngine

\* A step of the engine: what was called or handled, for which request id (0: none),
\* the ids that were pending before it, and whether the channel has failed so far.
Event(op, id, before, failed) ==
  [op |-> op, id |-> id, before |-> before, failed |-> failed]

NoEvent == Event("new", 0, {}, FALSE)

\* The calls with the promise of request id settled with outcome.
Settle(cs, id, outcome) ==
  [i \in 1 .. Len(cs) |->
     IF cs[i].status = "inflight" /\ Top(cs[i].frames).phase = "awaitWorker"
        /\ Top(cs[i].frames).corr = id
       THEN [cs[i] EXCEPT !.frames[Len(cs[i].frames)] =
               [@ EXCEPT !.phase = "settled", !.out = outcome]]
       ELSE cs[i]]

\* _rejectAllExecutions(errorMessage): every pending promise is rejected.
RECURSIVE RejectAll(_, _, _)
RejectAll(cs, ids, errorMessage) ==
  IF ids = {} THEN cs
  ELSE LET id == CHOOSE x \in ids : TRUE
       IN  RejectAll(Settle(cs, id, Rejected(errorMessage)), ids \ {id}, errorMessage)

\* _handleWorkerMessage for { type: 'result', id, result } with a pending id (the
\* worker answers requests, so other ids do not arrive): the promise is resolved.
WorkerResult ==
  \E id \in DOMAIN pendingExecutions, result \in ScriptValues :
    /\ worker # NULL
    /\ NoneRunnable
    /\ calls' = Settle(calls, id, Resolved(result))
    /\ pendingExecutions' = MapDelete(pendingExecutions, id)
    /\ UNCHANGED <<executionStack, executionSequence, rootExecutions, executionsByParent,
                   worker, workerDisabled, executionCounter, pops>>
    /\ UNCHANGED outsideExec

\* _handleWorkerMessage for { type: 'error', id, errmsg } with a pending id.
WorkerError ==
  \E id \in DOMAIN pendingExecutions :
    /\ worker # NULL
    /\ NoneRunnable
    /\ calls' = Settle(calls, id, Rejected("Script failed"))
    /\ pendingExecutions' = MapDelete(pendingExecutions, id)
    /\ UNCHANGED <<executionStack, executionSequence, rootExecutions, executionsByParent,
                   worker, workerDisabled, executionCounter, pops>>
    /\ UNCHANGED outsideExec

\* _handleWorkerMessage for { type: 'error', errmsg } without an id.
WorkerErrorNoId ==
  /\ worker # NULL
  /\ NoneRunnable
  /\ calls' = RejectAll(calls, DOMAIN pendingExecutions, "Critical error in Worker")
  /\ pendingExecutions' = EmptyMap
  /\ UNCHANGED <<executionStack, executionSequence, rootExecutions, executionsByParent,
                 worker, workerDisabled, executionCounter, pops>>
  /\ UNCHANGED outsideExec

\* _handleWorkerError(error): the worker's error event.
WorkerErrorEvent ==
  /\ worker # NULL
  /\ NoneRunnable
  /\ calls' = RejectAll(calls, DOMAIN pendingExecutions, "Critical error in Worker")
  /\ pendingExecutions' = EmptyMap
  /\ workerDisabled' = TRUE
  /\ UNCHANGED <<executionStack, executionSequence, rootExecutions, executionsByParent,
                 worker, executionCounter, pops>>
  /\ UNCHANGED outsideExec

\* _executeDirectly(scriptName, inputParams) settles: with what execute returned, or
\* with the error of the import or of the script.
DirectSettle ==
  \E i \in 1 .. Len(calls), outcome \in RunnerOutcomes :
    /\ NoneRunnable
    /\ InFlight(i)
    /\ Top(calls[i].frames).phase = "awaitDirect"
    /\ calls' = [calls EXCEPT ![i].frames[Len(calls[i].frames)] =
                   [@ EXCEPT !.phase = "settled", !.out = outcome]]
    /\ UNCHANGED <<executionStack, executionSequence, rootExecutions, executionsByParent,
                   worker, workerDisabled, executionCounter, pendingExecutions, pops>>
    /\ UNCHANGED outsideExec

\* clearLogs(): the log is emptied, whatever is in flight.
ClearLogs ==
  /\ rootExecutions' = <<>>
  /\ executionsByParent' = EmptyMap
  /\ UNCHANGED <<executionStack, executionSequence, worker, workerDisabled,
                 executionCounter, pendingExecutions, calls, pops>>
  /\ UNCHANGED outsideExec

\* ------------------------------------------------------------------ play buttons

\* The entries shown with a play button: BlockItem and ContainerItem show the entries
\* under a container; the main container, shown by MainArea, has none.
Playable == {id \in entriesById : parentIdById[id] # NULL}

\* onPlay of the component of an entry, up to its await: the click is skipped if the
\* component's own isExecuting is set; else useEntryExecution's executeEntry sets it
\* and calls the service's executeEntry.
OnPlay ==
  \E entry \in Playable :
    IF isExecuting[entry]
      THEN UNCHANGED vars
      ELSE /\ Len(calls) < MaxCalls
           /\ LET x == Enter(ExecState(<<>>), Len(calls) + 1, entry, NullId)
              IN  SetExec(x, Append(calls,
                                    Call(x.frames, \E i \in 1 .. Len(calls) : InFlight(i))))
           /\ isExecuting' = [isExecuting EXCEPT ![entry] = TRUE]
           /\ played' = [played EXCEPT ![entry] = Len(calls) + 1]
           /\ UNCHANGED <<worker, workerDisabled>>
           /\ UNCHANGED outsidePlay

\* useEntryExecution's executeEntry after its await: the finally block.
OnPlayFinally ==
  \E entry \in Playable :
    /\ played[entry] # 0
    /\ ~InFlight(played[entry])
    /\ isExecuting' = [isExecuting EXCEPT ![entry] = FALSE]
    /\ played' = [played EXCEPT ![entry] = 0]
    /\ UNCHANGED <<execVars, outsidePlay>>

\* The components as they are set up: no execution asked for.
PlayInit ==
  /\ isExecuting = [id \in Ids |-> FALSE]
  /\ played = [id \in Ids |-> 0]

\* ------------------------------------------------------------------ the log alone

\* The executions whose records the log is given, made as executeEntry makes them
\* one after another: blocks top-level block executions still to come, then one
\* execution of a container of blocks. root: the execution id of the container while
\* it is in flight (NullId: not), made: the children it has executed, done: it has
\* returned. The log reads of an entry only its type and its id, so the blocks are
\* all given as b1 and the container as c1.
LogRun(blocks, root, made, done) ==
  [blocks |-> blocks, root |-> root, made |-> made, done |-> done]

NoRun == LogRun(0, NullId, 0, TRUE)

\* How many block executions a step of the run makes.
Strides == {10, 40}

\* The log after n executions of blocks one after another, the first with sequence
\* number seq + 1, as children of parentExecutionId or (NullId) at top level: for
\* each, executeEntry calls addLog and, once the block has returned, updateLog.
RECURSIVE BlocksLogged(_, _, _, _)
BlocksLogged(log, seq, parentExecutionId, n) ==
  IF n = 0 THEN log
  ELSE LET executionId == ExecutionId(seq + 1, "b1")
           next == UpdateLog(AddLog(log, "b1", executionId, parentExecutionId),
                             executionId, Object("true", ""))
       IN  \* TLC computes next here, before the executions that follow it.
           IF GetExecutionCount(next) >= 0
             THEN BlocksLogged(next, seq + 1, parentExecutionId, n - 1)
             ELSE next

\* The log after a step of the run, the rest of the services as they were.
Logged(log, seq, run) ==
  /\ rootExecutions' = log.roots
  /\ executionsByParent' = log.byParent
  /\ executionSequence' = seq
  /\ logRun' = run
  /\ UNCHANGED <<executionStack, worker, workerDisabled, executionCounter,
                 pendingExecutions, calls, pops>>
  /\ UNCHANGED <<regVars, playVars, engVars, liveWorkers, dragVars>>

\* executeEntry(block) from outside, n times.
LogBlocks ==
  \E n \in Strides :
    /\ ~logRun.done /\ logRun.root = NullId
    /\ logRun.blocks >= n
    /\ Logged(BlocksLogged(Logs(rootExecutions, executionsByParent), executionSequence,
                           NullId, n),
              executionSequence + n,
              [logRun EXCEPT !.blocks = @ - n])

\* executeEntry(container) from outside, to the call of executeEntry for its first
\* child: addLog(container, executionId, null).
LogContainer ==
  /\ ~logRun.done /\ logRun.root = NullId
  /\ logRun.blocks = 0
  /\ LET executionId == ExecutionId(executionSequence + 1, "c1")
     IN  Logged(AddLog(Logs(rootExecutions, executionsByParent), "c1", executionId, NullId),
                executionSequence + 1,
                [logRun EXCEPT !.root = executionId])

\* executeEntry(child, traceId) in the container's loop, for its next n children.
LogChildren ==
  \E n \in Strides :
    /\ logRun.root # NullId
    /\ logRun.made + n <= MaxWidth
    /\ Logged(BlocksLogged(Logs(rootExecutions, executionsByParent), executionSequence,
                           logRun.root, n),
              executionSequence + n,
              [logRun EXCEPT !.made = @ + n])

\* The container returns, having no more children: updateLog(executionId, result).
LogContainerResult ==
  /\ logRun.root # NullId
  /\ Logged(UpdateLog(Logs(rootExecutions, executionsByParent), logRun.root,
                      Object("true", "")),
            executionSequence,
            [logRun EXCEPT !.root = NullId, !.done = TRUE])

\* The log and the engine are not looked at alone.
AloneInit ==
  /\ logRun = NoRun
  /\ promises = <<>>
  /\ requests = {}
  /\ lastEvent = NoEvent
  /\ dragDropState = NoDrag
  /\ lastDrop = NoDrop
  /\ liveWorkers = IF worker = NULL THEN 0 ELSE 1

\* ------------------------------------------------------------------ the engine alone

\* What the script of a request does: its execute returns a result object, returns a
\* promise of one, throws an Error, throws null (nothing with a message); or the
\* module exports no execute function; or the module cannot be loaded.
Scripts == {"returns", "returnsPromise", "throws", "throwsNull", "noExecute", "cannotLoad"}

\* The result object of the scripts that give one.
ScriptResult == Object("true", Undefined)

\* The message of the error that script ends with.
ScriptError(script) ==
  CASE script = "throws" -> "Script failed"
    [] script = "throwsNull" -> "Cannot read properties of null"
    [] script = "noExecute" -> "Script does not export an execute function"
    [] OTHER -> "Cannot find module"

\* The promise executeScript returns for script, on the worker path (with its request
\* id) or the direct path (id 0): pending, then resolved or rejected with a value by
\* the step named by. settles counts the calls of its resolve and reject; late: made
\* after a failure of the channel; abandoned: pending when terminate() was called.
Promise(script, path, id, late) ==
  [script |-> script, path |-> path, id |-> id, state |-> "pending",
   value |-> UndefinedValue, by |-> "none", settles |-> 0, late |-> late,
   abandoned |-> FALSE]

\* resolve(value) or reject(value) of promise p: a settled promise stays as it is.
SettlePromise(ps, p, outcome, by) ==
  [ps EXCEPT ![p] =
     IF @.state = "pending"
       THEN [@ EXCEPT !.state = outcome.kind, !.value = outcome.value, !.by = by,
                      !.settles = @ + 1]
       ELSE [@ EXCEPT !.settles = @ + 1]]

\* The engine: its fields, the promises it has returned, and whether a call made on
\* it has thrown.
Engine ==
  [worker |-> worker, workerDisabled |-> workerDisabled,
   executionCounter |-> executionCounter, pendingExecutions |-> pendingExecutions,
   promises |-> promises, threw |-> FALSE]

\* _rejectAllExecutions(errorMessage)
RECURSIVE RejectPromises(_, _, _, _)
RejectPromises(ps, pending, ids, errorMessage) ==
  IF ids = {} THEN ps
  ELSE LET id == CHOOSE x \in ids : TRUE
       IN  RejectPromises(SettlePromise(ps, pending[id],
                                        Rejected("Critical error in Worker"), "rejectAll"),
                          pending, ids \ {id}, errorMessage)

\* _rejectAllExecutions without its clear(): a faulty variant.
RejectAllExecutionsNoClear(e, errorMessage) ==
  [e EXCEPT !.promises = RejectPromises(@, e.pendingExecutions,
                                        DOMAIN e.pendingExecutions, errorMessage)]

RejectAllExecutions(e, errorMessage) ==
  [e EXCEPT !.promises = RejectPromises(@, e.pendingExecutions,
                                        DOMAIN e.pendingExecutions, errorMessage),
            !.pendingExecutions = EmptyMap]

\* A message of the worker: its type, id (0: it has none), result and errmsg.
Message(type, id, result, errmsg) ==
  [type |-> type, id |-> id, result |-> result, errmsg |-> errmsg]

\* _handleWorkerMessage whose 'result' case leaves the request in the map: a faulty
\* variant.
HandleWorkerMessageNoDelete(e, m) ==
  IF m.type = "result" /\ m.id \in DOMAIN e.pendingExecutions
    THEN [e EXCEPT !.promises = SettlePromise(@, e.pendingExecutions[m.id],
                                              Resolved(m.result), "result")]
    ELSE e

\* _handleWorkerMessage(e) for the message m
HandleWorkerMessage(e, m) ==
  CASE m.type = "result" ->
         IF m.id \in DOMAIN e.pendingExecutions
           THEN [e EXCEPT !.promises = SettlePromise(@, e.pendingExecutions[m.id],
                                                     Resolved(m.result), "result"),
                          !.pendingExecutions = MapDelete(@, m.id)]
           ELSE e
    [] m.type = "error" ->
         IF m.id # 0
           THEN IF m.id \in DOMAIN e.pendingExecutions
                  THEN [e EXCEPT !.promises = SettlePromise(@, e.pendingExecutions[m.id],
                                                            Rejected(m.errmsg), "error"),
                                 !.pendingExecutions = MapDelete(@, m.id)]
                  ELSE e
           ELSE RejectAllExecutions(e, m.errmsg)
    [] OTHER -> e

\* _handleWorkerError(error)
HandleWorkerError(e, errorMessage) ==
  [RejectAllExecutions(e, errorMessage) EXCEPT !.workerDisabled = TRUE]

\* The worker's answer to the request id for script: handleExecuteMessage posts what
\* execute gave as a 'result', and an error it caught as a 'result' too, with an
\* errmsg and no result; when what it caught is null, its catch block throws, and
\* onmessage has sendErrorToMain post an 'error' without an id.
WorkerAnswer(id, script) ==
  CASE script \in {"returns", "returnsPromise"} ->
         Message("result", id, ScriptResult, Undefined)
    [] script = "throwsNull" ->
         Message("error", 0, UndefinedValue, ScriptError(script))
    [] OTHER ->
         Message("result", id, UndefinedValue, ScriptError(script))

\* How _executeDirectly settles for script.
DirectOutcome(script) ==
  IF script \in {"returns", "returnsPromise"}
    THEN Resolved(ScriptResult)
    ELSE Rejected(ScriptError(script))

\* A step of the engine alone to the engine e, with the ghost parts set: a worker
\* the step lets go has been terminated.
SetEngine(e, op, id, failed) ==
  /\ worker' = e.worker
  /\ workerDisabled' = e.workerDisabled
  /\ executionCounter' = e.executionCounter
  /\ pendingExecutions' = e.pendingExecutions
  /\ promises' = e.promises
  /\ lastEvent' = Event(op, id, DOMAIN pendingExecutions, lastEvent.failed \/ failed)
  /\ liveWorkers' = IF worker # NULL /\ e.worker = NULL THEN liveWorkers - 1 ELSE liveWorkers
  /\ UNCHANGED <<executionStack, executionSequence, rootExecutions, executionsByParent,
                 calls, pops>>
  /\ UNCHANGED <<regVars, playVars, logVars, dragVars>>

\* executeScript(scriptName, inputParams) up to its await: _executeViaWorker counts,
\* stores the promise's resolve and reject and posts the request; _executeDirectly
\* starts the import.
EngineExecuteScript ==
  \E script \in Scripts :
    /\ Len(promises) < MaxScripts
    /\ LET p == Len(promises) + 1
           id == executionCounter + 1
       IN  IF ~workerDisabled /\ worker # NULL
             THEN /\ SetEngine([Engine EXCEPT
                                  !.executionCounter = id,
                                  !.pendingExecutions = MapSet(@, id, p),
                                  !.promises = Append(@, Promise(script, "worker", id,
                                                                 lastEvent.failed))],
                               "execute", id, FALSE)
                  /\ requests' = requests \cup {id}
             ELSE /\ SetEngine([Engine EXCEPT
                                  !.promises = Append(@, Promise(script, "direct", 0,
                                                                 lastEvent.failed))],
                               "execute", 0, FALSE)
                  /\ requests' = requests

\* The promise of the request id.
PromiseOf(id) == CHOOSE p \in 1 .. Len(promises) : promises[p].id = id

\* The worker answers a request, and the engine handles the message. An answer on
\* its way when terminate() is called is let through: the handler is the same.
EngineWorkerAnswer ==
  \E id \in requests :
    LET m == WorkerAnswer(id, promises[PromiseOf(id)].script)
    IN  /\ SetEngine(HandleWorkerMessage(Engine, m), m.type, m.id, m.type = "error")
        /\ requests' = requests \ {id}

\* The engine handles { type: 'error', id, errmsg }: a message this worker does not
\* post, and the handler serves.
EngineWorkerError ==
  \E id \in requests :
    /\ SetEngine(HandleWorkerMessage(Engine, Message("error", id, UndefinedValue,
                                                     "Script failed")),
                 "error", id, FALSE)
    /\ requests' = requests \ {id}

\* The worker's onerror has sendErrorToMain post { type: 'error', errmsg }, and the
\* engine handles it.
EngineWorkerErrorNoId ==
  /\ worker # NULL
  /\ SetEngine(HandleWorkerMessage(Engine, Message("error", 0, UndefinedValue,
                                                   "Global worker error")),
               "error", 0, TRUE)
  /\ requests' = requests

\* The worker's error event.
EngineWorkerErrorEvent ==
  /\ worker # NULL
  /\ SetEngine(HandleWorkerError(Engine, "Worker failed"), "errorEvent", 0, TRUE)
  /\ requests' = requests

\* _executeDirectly settles.
EngineDirectSettle ==
  \E p \in 1 .. Len(promises) :
    /\ promises[p].path = "direct"
    /\ promises[p].state = "pending"
    /\ SetEngine([Engine EXCEPT !.promises = SettlePromise(@, p,
                                                DirectOutcome(promises[p].script), "direct")],
                 "direct", 0, FALSE)
    /\ requests' = requests

\* terminate() of the engine. The ghost part: the pending promises are marked.
EngineTerminateCall ==
  /\ LET e == EngineTerminate(Engine)
     IN  SetEngine([e EXCEPT !.promises =
                      [p \in 1 .. Len(promises) |->
                         [e.promises[p] EXCEPT !.abandoned =
                            @ \/ \E id \in DOMAIN pendingExecutions :
                                   pendingExecutions[id] = p]]],
                   "terminate", 0, FALSE)
  /\ requests' = requests

\* initialize() of the engine: _initWorker() makes a Worker and keeps it in
\* this.worker, or, when new Worker throws, sets workerDisabled.
EngineInitialize ==
  /\ liveWorkers < MaxWorkers
  /\ \E made \in BOOLEAN :
       IF made
         THEN /\ worker' = "worker"
              /\ liveWorkers' = liveWorkers + 1
              /\ UNCHANGED workerDisabled
         ELSE /\ workerDisabled' = TRUE
              /\ UNCHANGED <<worker, liveWorkers>>
  /\ lastEvent' = Event("initialize", 0, DOMAIN pendingExecutions, lastEvent.failed)
  /\ UNCHANGED <<executionStack, executionSequence, rootExecutions, executionsByParent,
                 executionCounter, pendingExecutions, calls, pops>>
  /\ UNCHANGED <<regVars, playVars, logVars, promises, requests, dragVars>>

\* ------------------------------------------------------------------ drag and drop handlers

\* The container MainArea makes and shows.
MainContainer == "c1"

\* The entries shown: those under the main container, each by the component of its
\* parent.
Shown == ReachedFrom(children, ChildIds(children, MainContainer), Cardinality(Ids))

\* onDragStart of the component of a shown entry: useDraggable activates the drag
\* state, and the component's callback fills the dataTransfer; ContainerItem's also
\* sets the dragged ids, BlockItem's leaves them as they are.
OnDragStart ==
  \E entry \in Shown :
    /\ dragDropState.entryId = NULL
    /\ dragDropState' =
         DragDropState(TRUE,
                       IF Type(entry) = "container"
                         THEN GetAllDescendantIds(Registry, entry)
                         ELSE dragDropState.draggedItemIds,
                       entry,
                       IF parentIdById[entry] # NULL THEN parentIdById[entry]
                       ELSE IF Type(entry) = "container" THEN entry ELSE NULL)
    /\ UNCHANGED <<regVars, lastDrop>>
    /\ UNCHANGED <<execVars, playVars, logVars, engVars, liveWorkers>>

\* What the drop callback of target's component calls for a placed entry:
\* reorderEntry when the dataTransfer's sourceId is the target (for MainArea, also
\* when there is none), moveEntry otherwise.
DropCall(target, sourceId) ==
  IF sourceId = target \/ (target = MainContainer /\ sourceId = NULL)
    THEN "reorderEntry" ELSE "moveEntry"

\* onDrop of a drop area of a shown container, with the index of the area, during
\* the drag of a placed entry: useDroppable calls the component's callback, which
\* calls the EntryManager. The drop areas take a drop whether or not isDroppable
\* marks them active.
OnDrop ==
  \E target \in (Shown \cup {MainContainer}) \cap Containers :
    \E index \in 0 .. Len(children[target]) :
      LET entryId == dragDropState.entryId
          op == DropCall(target, dragDropState.sourceId)
          res == IF op = "reorderEntry"
                   THEN ReorderEntry(Registry, target, entryId, index)
                   ELSE MoveEntry(Registry, entryId, target, index)
      IN  /\ entryId # NULL
          /\ entriesById' = res.ent
          /\ parentIdById' = res.par
          /\ children' = res.ch
          /\ lastCall' = [op |-> op, id |-> entryId, ret |-> res.ret]
          /\ callsChecked' = (callsChecked /\ TargetChecked(Registry, target, entryId))
          /\ lastDrop' = Drop(op, target, entryId, GetAllDescendantIds(Registry, entryId))
          /\ dragDropState' = [dragDropState EXCEPT !.entryId = NULL, !.sourceId = NULL]
          /\ UNCHANGED <<execVars, playVars, logVars, engVars, liveWorkers>>

\* onDragEnd of useDraggable: deactivateDragging() clears the drag state. After a
\* drop that moved the dragged component away it may not come before the next drag.
OnDragEnd ==
  /\ dragDropState.isDragging
  /\ dragDropState' = NoDrag
  /\ UNCHANGED <<regVars, lastDrop>>
  /\ UNCHANGED <<execVars, playVars, logVars, engVars, liveWorkers>>

\* ------------------------------------------------------------------ disciplined calls

\* The indexes a call may give for the container parentId: 0 .. children.length at
\* the time of the call (0 where parentId is no registered container, and the index
\* is not looked at).
IndexesOf(parentId) ==
  IF parentId \in entriesById \cap Containers
    THEN 0 .. Len(children[parentId]) ELSE {0}

\* addEntry with an entry whose id is not registered yet, under any parent or none.
DisciplinedAddEntry ==
  \E parentId \in Ids \cup {NULL}, entry \in Ids \ entriesById :
    \E index \in IndexesOf(parentId) :
      Called(AddEntry(Registry, parentId, entry, index), "addEntry", entry, TRUE)

\* removeEntry with any id.
DisciplinedRemoveEntry ==
  \E entryId \in Ids :
    Called(RemoveEntry(Registry, entryId), "removeEntry", entryId, TRUE)

\* reorderEntry with any parent and entry, the index within the parent's children.
DisciplinedReorderEntry ==
  \E parentId \in Ids, entryId \in Ids :
    \E index \in IndexesOf(parentId) :
      Called(ReorderEntry(Registry, parentId, entryId, index), "reorderEntry",
             entryId, TRUE)

\* moveEntry with any entry, to a registered container that is not among
\* getAllDescendantIds(entryId), the index within the container's children.
DisciplinedMoveEntry ==
  \E entryId \in Ids, newParentId \in entriesById \cap Containers :
    /\ newParentId \notin GetAllDescendantIds(Registry, entryId)
    /\ \E index \in IndexesOf(newParentId) :
         Called(MoveEntry(Registry, entryId, newParentId, index), "moveEntry",
                entryId, TRUE)

\* ------------------------------------------------------------------ end to end

\* The script a block of that name runs: Hello.js and World.js both export an
\* execute that returns a result object with success true; there is no module of
\* another name.
ScriptNamed(name) ==
  IF name \in {"Hello", "World"} THEN "returns" ELSE "cannotLoad"

\* The block whose request id is pending.
Requesting(id) == Top(calls[pendingExecutions[id]].frames).entry

\* The scenario's first step: the container root is created and registered.
ScenarioCreateRoot ==
  /\ calls = <<>>
  /\ "c1" \notin entriesById
  /\ Called(AddEntry(Registry, NULL, "c1", 0), "addEntry", "c1", TRUE)

\* Its next steps: block Hello is added to root at index 0, then block World at
\* index 1.
ScenarioAddBlock ==
  \E entry \in Blocks :
    /\ calls = <<>>
    /\ "c1" \in entriesById
    /\ entry \notin entriesById
    /\ entry = "b2" => "b1" \in entriesById
    /\ Called(AddEntry(Registry, "c1", entry, IF entry = "b1" THEN 0 ELSE 1),
              "addEntry", entry, TRUE)

\* The worker answers the request id with what the script of the block's name gave,
\* and _handleWorkerMessage settles the request's promise.
ScenarioWorkerAnswer ==
  \E id \in DOMAIN pendingExecutions :
    /\ worker # NULL
    /\ NoneRunnable
    /\ LET m == WorkerAnswer(id, ScriptNamed(Name(Requesting(id))))
       IN  /\ m.type = "result"
           /\ calls' = Settle(calls, id, Resolved(m.result))
    /\ pendingExecutions' = MapDelete(pendingExecutions, id)
    /\ UNCHANGED <<executionStack, executionSequence, rootExecutions, executionsByParent,
                   worker, workerDisabled, executionCounter, pops>>
    /\ UNCHANGED outsideExec

\* _executeDirectly settles with what the script of the block's name gave.
ScenarioDirectSettle ==
  \E i \in 1 .. Len(calls) :
    /\ NoneRunnable
    /\ InFlight(i)
    /\ Top(calls[i].frames).phase = "awaitDirect"
    /\ calls' = [calls EXCEPT ![i].frames[Len(calls[i].frames)] =
                   [@ EXCEPT !.phase = "settled",
                             !.out = DirectOutcome(
                                       ScriptNamed(Name(Top(calls[i].frames).entry)))]]
    /\ UNCHANGED <<executionStack, executionSequence, rootExecutions, executionsByParent,
                   worker, workerDisabled, executionCounter, pendingExecutions, pops>>
    /\ UNCHANGED outsideExec

\* ------------------------------------------------------------------ specifications

\* new EntryExecutionService(config, executionLogService), which makes the engine
\* and has it initialized: _initWorker() has a worker, or could not make one.
ExecInit ==
  /\ executionStack = <<>>
  /\ executionSequence = 0
  /\ rootExecutions = <<>>
  /\ executionsByParent = EmptyMap
  /\ worker \in {"worker", NULL}
  /\ workerDisabled = (worker = NULL)
  /\ executionCounter = 0
  /\ pendingExecutions = EmptyMap
  /\ calls = <<>>
  /\ pops = <<>>

\* new EntryManager()
RegInit ==
  /\ entriesById = {}
  /\ parentIdById = [id \in Ids |-> NULL]
  /\ children = [c \in Containers |-> <<>>]
  /\ lastCall = [op |-> "new", id |-> NULL, ret |-> NULL]
  /\ callsChecked = TRUE

Init == RegInit /\ ExecInit /\ PlayInit /\ AloneInit /\ worker = "worker"

Next == DoAddEntry \/ DoRemoveEntry \/ DoReorderEntry \/ DoMoveEntry

\* The registry under calls with arbitrary arguments.
Spec == Init /\ [][Next]_vars

TreeNext ==
  TreeRegister \/ TreeAddEntry \/ TreeRemoveEntry \/ TreeReorderEntry \/ TreeMoveEntry

\* The registry under the calls the components make.
SpecTree == Init /\ [][TreeNext]_vars

\* The entry trees executed: container c1 holding block b1, container c2 and block
\* b2, with c2 empty or (b2 moved into it) holding b2.
ExecTrees ==
  {[c1 |-> <<"b1", "c2", "b2">>, c2 |-> <<>>],
   [c1 |-> <<"b1", "c2">>, c2 |-> <<"b2">>]}

\* A registry as the components' calls have built it.
TreeInit ==
  /\ entriesById = Ids
  /\ children \in ExecTrees
  /\ parentIdById = [id \in Ids |->
                       IF id = "c1" THEN NULL
                       ELSE IF id \in ChildIds(children, "c2") THEN "c2" ELSE "c1"]
  /\ lastCall = IF children["c2"] = <<>>
                  THEN [op |-> "addEntry", id |-> "b2", ret |-> "true"]
                  ELSE [op |-> "moveEntry", id |-> "b2", ret |-> "true"]
  /\ callsChecked = TRUE

ExecNext ==
  \/ StartCall
  \/ Resume
  \/ Terminate
  \/ WorkerResult
  \/ WorkerError
  \/ WorkerErrorNoId
  \/ WorkerErrorEvent
  \/ DirectSettle

\* Executions of the entries of a built tree, with the runner's answers in any order.
InitExec == TreeInit /\ ExecInit /\ PlayInit /\ AloneInit

SpecExec == InitExec /\ [][ExecNext]_vars

PlayNext ==
  \/ OnPlay
  \/ OnPlayFinally
  \/ Resume
  \/ WorkerResult
  \/ WorkerError
  \/ WorkerErrorNoId
  \/ WorkerErrorEvent
  \/ DirectSettle

\* Executions started by clicks on the play buttons of the entries of a built tree.
SpecPlay == InitExec /\ [][PlayNext]_vars

\* new ExecutionLogService(), with the run it will be given: a container of blocks
\* executed at once, or after BlocksFirst top-level block executions.
InitLog ==
  /\ TreeInit /\ ExecInit /\ PlayInit
  /\ worker = "worker"
  /\ children["c2"] = <<>>
  /\ logRun \in {LogRun(0, NullId, 0, FALSE), LogRun(BlocksFirst, NullId, 0, FALSE)}
  /\ promises = <<>>
  /\ requests = {}
  /\ lastEvent = NoEvent
  /\ dragDropState = NoDrag
  /\ lastDrop = NoDrop
  /\ liveWorkers = IF worker = NULL THEN 0 ELSE 1

LogNext == LogBlocks \/ LogContainer \/ LogChildren \/ LogContainerResult

\* The log under the addLog and updateLog calls of executions made one after another.
SpecLog == InitLog /\ [][LogNext]_vars

\* new JavaScriptExecutionEngine() initialized, with no call made yet.
InitEngine ==
  /\ TreeInit /\ ExecInit /\ PlayInit
  /\ children["c2"] = <<>>
  /\ logRun = NoRun
  /\ promises = <<>>
  /\ requests = {}
  /\ lastEvent = NoEvent
  /\ dragDropState = NoDrag
  /\ lastDrop = NoDrop
  /\ liveWorkers = IF worker = NULL THEN 0 ELSE 1

EngineNext ==
  \/ EngineExecuteScript
  \/ EngineWorkerAnswer
  \/ EngineWorkerError
  \/ EngineWorkerErrorNoId
  \/ EngineWorkerErrorEvent
  \/ EngineDirectSettle
  \/ EngineTerminateCall

\* The engine under executeScript and terminate calls, with the worker's messages
\* and error events in any order.
SpecEngine == InitEngine /\ [][EngineNext]_vars

\* new JavaScriptExecutionEngine(): no worker yet, and the worker path not disabled.
InitNew ==
  /\ TreeInit /\ PlayInit
  /\ children["c2"] = <<>>
  /\ executionStack = <<>>
  /\ executionSequence = 0
  /\ rootExecutions = <<>>
  /\ executionsByParent = EmptyMap
  /\ worker = NULL
  /\ workerDisabled = FALSE
  /\ executionCounter = 0
  /\ pendingExecutions = EmptyMap
  /\ calls = <<>>
  /\ pops = <<>>
  /\ logRun = NoRun
  /\ promises = <<>>
  /\ requests = {}
  /\ lastEvent = NoEvent
  /\ dragDropState = NoDrag
  /\ lastDrop = NoDrop
  /\ liveWorkers = 0

InitializeNext ==
  \/ EngineInitialize
  \/ EngineExecuteScript
  \/ EngineWorkerAnswer
  \/ EngineDirectSettle
  \/ EngineTerminateCall

\* The engine under initialize, executeScript and terminate calls.
SpecInitialize == InitNew /\ [][InitializeNext]_vars

DropNext == OnDragStart \/ OnDrop \/ OnDragEnd

InitDrop == InitExec /\ worker = "worker"

\* Drags of the placed entries of a built tree, each dropped on any drop area shown.
SpecDrop == InitDrop /\ [][DropNext]_vars

ScenarioNext ==
  \/ ScenarioCreateRoot
  \/ ScenarioAddBlock
  \/ StartCall
  \/ Resume
  \/ ScenarioWorkerAnswer
  \/ ScenarioDirectSettle

InitScenario == RegInit /\ ExecInit /\ PlayInit /\ AloneInit

\* The end-to-end scenario: the tree is built from an empty registry, then entries
\* are executed, with the scripts giving what Hello.js and World.js give.
SpecScenario == InitScenario /\ [][ScenarioNext]_vars

DisciplineNext ==
  \/ DisciplinedAddEntry
  \/ DisciplinedRemoveEntry
  \/ DisciplinedReorderEntry
  \/ DisciplinedMoveEntry

\* The registry under calls that keep to the documented discipline: new ids only for
\* addEntry, indexes within the target's children, no move into the moved subtree.
SpecDiscipline == Init /\ [][DisciplineNext]_vars

\* The trees of three entries: container c1 holding block b1 and the empty
\* container c2, or holding c2 which holds b1.
RunTrees ==
  {[c1 |-> <<"b1", "c2">>, c2 |-> <<>>],
   [c1 |-> <<"c2">>, c2 |-> <<"b1">>]}

InitRun ==
  /\ entriesById = {"c1", "c2", "b1"}
  /\ children \in RunTrees
  /\ parentIdById = [id \in Ids |->
                       IF id \in ChildIds(children, "c2") THEN "c2"
                       ELSE IF id \in ChildIds(children, "c1") THEN "c1" ELSE NULL]
  /\ lastCall = [op |-> "addEntry", id |-> IF children["c2"] = <<>> THEN "c2" ELSE "b1",
                 ret |-> "true"]
  /\ callsChecked = TRUE
  /\ ExecInit /\ PlayInit /\ AloneInit

\* The execution service while terminate() is not called.
RunNext ==
  \/ StartCall
  \/ Resume
  \/ WorkerResult
  \/ WorkerError
  \/ WorkerErrorNoId
  \/ WorkerErrorEvent
  \/ DirectSettle

\* The runner answers: the worker posts a message or fires an error event for the
\* requests it holds, and the import of a script module settles.
RunnerAnswers ==
  WorkerResult \/ WorkerError \/ WorkerErrorNoId \/ WorkerErrorEvent \/ DirectSettle

\* Executions without terminate(), where a call that can go on does (the microtask
\* queue is run) and every request handed to the runner is answered.
SpecRun ==
  /\ InitRun
  /\ [][RunNext]_vars
  /\ WF_vars(Resume)
  /\ WF_vars(RunnerAnswers)

ClearNext ==
  \/ StartCall
  \/ Resume
  \/ WorkerResult
  \/ WorkerError
  \/ DirectSettle
  \/ ClearLogs

\* Executions during which the log is cleared at any time.
SpecClear == InitRun /\ [][ClearNext]_vars

\* The first executeEntry call.
StartFirst == calls = <<>> /\ StartCall

\* terminate() called from an event handler while the first call is in flight and
\* no other has been made.
TerminateInFlight ==
  /\ Len(calls) = 1
  /\ InFlight(1)
  /\ NoneRunnable
  /\ executionStack # <<>>
  /\ Terminate

\* An executeEntry call made after that terminate(), the first call still in flight.
StartAfterTerminate ==
  /\ Len(calls) = 1
  /\ InFlight(1)
  /\ executionStack = <<>>
  /\ StartCall

StopNext ==
  \/ StartFirst
  \/ TerminateInFlight
  \/ StartAfterTerminate
  \/ Resume
  \/ WorkerResult
  \/ DirectSettle

\* An execution, terminate() while it is in flight, and a new execution after it.
SpecStop == InitExec /\ [][StopNext]_vars

\* ------------------------------------------------------------------ registry claims

\* C1: every key of the child-to-parent map is a registered entry, and the parent it
\* maps to is a registered container whose children hold that child exactly once.
C1_ParentMapMatchesChildren ==
  \A id \in Ids :
    parentIdById[id] # NULL =>
      /\ id \in entriesById
      /\ parentIdById[id] \in entriesById \cap Containers
      /\ Occurrences(children[parentIdById[id]], id) = 1

\* No registered entry is reached again by following children links down from it.
NoCycle == \A id \in entriesById : ~IsOwnAncestor(children, id)

\* C2 as claimed: after any sequence of calls no entry is its own ancestor.
C2_NoCycleAfterAnyCalls == NoCycle

\* C2 as amended: after any sequence of calls in which no addEntry or moveEntry call
\* was given a target parent that is the entry itself or one of
\* getAllDescendantIds(entry), no entry is its own ancestor.
C2_NoCycleWhenCallersCheck == callsChecked => NoCycle

C2_Witness ==
  /\ lastCall.op = "moveEntry" /\ lastCall.ret = "true" /\ lastCall.id = "c2"
  /\ children["c1"] = <<"c2">> /\ children["c2"] = <<"b1">>
  /\ parentIdById["c2"] = "c1" /\ parentIdById["b1"] = "c2"
  /\ callsChecked

\* C3: a call that returns false leaves the entry map, the child-to-parent map and
\* every children array as they were.
C3_FalseMeansUnchanged ==
  [][lastCall'.ret = "false" => UNCHANGED <<entriesById, parentIdById, children>>]_vars

\* Three different entries.
Distinct3(a, b, c) == a # b /\ a # c /\ b # c

\* C4 as claimed: on children [A,B,C], reorderEntry(parent, A, 2) gives [B,C,A] and
\* reorderEntry(parent, C, 0) gives [C,A,B].
C4_ReorderAsClaimed ==
  \A p \in Containers, a \in Ids, b \in Ids, c \in Ids :
    (p \in entriesById /\ Distinct3(a, b, c) /\ children[p] = <<a, b, c>>) =>
      /\ ReorderEntry(Registry, p, a, 2).ch[p] = <<b, c, a>>
      /\ ReorderEntry(Registry, p, c, 0).ch[p] = <<c, a, b>>

\* C4 as amended: on children [A,B,C], reorderEntry(parent, A, 2) returns true and
\* gives [B,A,C], and reorderEntry(parent, C, 0) returns true and gives [C,A,B].
C4_ReorderExamples ==
  \A p \in Containers, a \in Ids, b \in Ids, c \in Ids :
    (p \in entriesById /\ Distinct3(a, b, c) /\ children[p] = <<a, b, c>>) =>
      /\ ReorderEntry(Registry, p, a, 2).ret = "true"
      /\ ReorderEntry(Registry, p, a, 2).ch[p] = <<b, a, c>>
      /\ ReorderEntry(Registry, p, c, 0).ret = "true"
      /\ ReorderEntry(Registry, p, c, 0).ch[p] = <<c, a, b>>

C4_Witness ==
  /\ lastCall.op = "reorderEntry" /\ lastCall.ret = "true" /\ lastCall.id = "b1"
  /\ children["c1"] = <<"b2", "b1", "c2">>

\* C5: after removeEntry(id) returned true, neither id nor any entry of its subtree
\* is a key of the entry map or of the child-to-parent map, and id is no longer
\* among the children of its former parent.
C5_RemovedSubtreeDestroyed ==
  [][\A id \in Ids :
       (lastCall'.op = "removeEntry" /\ lastCall'.id = id /\ lastCall'.ret = "true") =>
         /\ \A d \in GetAllDescendantIds(Registry, id) :
              d \notin entriesById' /\ parentIdById'[d] = NULL
         /\ parentIdById[id] \in Containers =>
              Occurrences(children'[parentIdById[id]], id) = 0]_vars

\* id with the ids the child-to-parent map leads to from it: its parent, the parent
\* of that, and so on.
RECURSIVE AncestorsOrSelf(_, _)
AncestorsOrSelf(seen, id) ==
  IF parentIdById[id] = NULL \/ parentIdById[id] \in seen
    THEN seen \cup {id}
    ELSE AncestorsOrSelf(seen \cup {id}, parentIdById[id])

\* The registered entries of the subtree of id, by the child-to-parent map.
Subtree(id) == {x \in entriesById : id \in AncestorsOrSelf({}, x)}

\* The registry is a forest: the children of a registered container are registered
\* entries, no entry is in children arrays more than once, the child-to-parent map
\* has the parent of every child and nothing else, and no entry is its own ancestor.
Forest ==
  /\ \A c \in Containers \cap entriesById :
       \A i \in 1 .. Len(children[c]) :
         /\ children[c][i] \in entriesById
         /\ parentIdById[children[c][i]] = c
         /\ \A d \in Containers \cap entriesById :
              Occurrences(children[d], children[c][i]) = IF d = c THEN 1 ELSE 0
  /\ C1_ParentMapMatchesChildren
  /\ NoCycle

Reverse(s) == [i \in 1 .. Len(s) |-> s[Len(s) + 1 - i]]

\* C23: in a registry that is a forest, getAllDescendantIds gives, for a registered
\* container, the container and the entries of its subtree and nothing else, also
\* with the children arrays in the opposite order; for a block or an id that is not
\* registered it gives that id alone.
C23_DescendantsAreTheSubtree ==
  Forest =>
    \A id \in Ids :
      /\ GetAllDescendantIds(Registry, id) =
           IF id \in entriesById /\ Type(id) = "container" THEN Subtree(id) ELSE {id}
      /\ GetAllDescendantIds([Registry EXCEPT !.ch = [c \in Containers |-> Reverse(children[c])]],
                             id)
           = GetAllDescendantIds(Registry, id)

\* C23's case: a forest in which container c1 holds container c2 and another entry,
\* and c2 holds an entry; c1's descendants are all four entries.
C23_Witness ==
  /\ Forest
  /\ parentIdById["c2"] = "c1"
  /\ Len(children["c1"]) = 2
  /\ Len(children["c2"]) = 1
  /\ GetAllDescendantIds(Registry, "c1") = Ids
  /\ GetAllDescendantIds(Registry, "c2") = {"c2", children["c2"][1]}

\* C24: addEntry of an entry not registered yet, with a registered container as
\* parent and an index below 0 or above the number of the parent's children, returns
\* false and leaves the entry registered, without a parent in the child-to-parent map
\* and in no children array.
C24_OutOfRangeLeavesFloating ==
  \A parentId \in Containers \cap entriesById, entry \in AnyIds \ entriesById,
     index \in Indexes :
    (index < 0 \/ index > Len(children[parentId])) =>
      LET res == AddEntry(Registry, parentId, entry, index)
      IN  /\ res.ret = "false"
          /\ entry \in res.ent
          /\ res.par[entry] = NULL
          /\ \A c \in Containers : Occurrences(res.ch[c], entry) = 0

\* C25: no call throws: addEntry, removeEntry, reorderEntry and moveEntry, with any
\* arguments (a null entry, unknown ids, a block as parent, any index), return true
\* or false.
C25_NoCallThrows == lastCall.op # "new" => lastCall.ret \in {"true", "false"}

\* ------------------------------------------------------------------ execution claims

\* The records of the log.
AllExecutions ==
  {rootExecutions[i] : i \in 1 .. Len(rootExecutions)} \cup
  UNION {{executionsByParent[k][i] : i \in 1 .. Len(executionsByParent[k])} :
           k \in DOMAIN executionsByParent}

\* The records of the executions made under the execution executionId, in the order
\* of their making.
ChildExecutions(executionId) ==
  IF executionId \in DOMAIN executionsByParent
    THEN executionsByParent[executionId] ELSE <<>>

Settled(i) == calls[i].status # "inflight"

\* C6: among the records of a container's children, a record is made only when
\* every record before it has its result written.
C6_ChildLoggedBeforeNextStarts ==
  \A k \in DOMAIN executionsByParent :
    \A i \in 1 .. Len(executionsByParent[k]) - 1 :
      executionsByParent[k][i].result # NullValue

\* C7: the success of a container's result is true if the result of every one of
\* its children has success true (so also if it has no child), and false otherwise;
\* the container's record holds that result, and an executeEntry call of the
\* container resolves with it. A child's record holds the child's result, or null
\* where the child gave {}: neither has success true.
C7_ContainerSuccessIsAnd ==
  /\ \A e \in AllExecutions :
       (e.entryType = "container" /\ e.result # NullValue) =>
         LET childExecutions == ChildExecutions(e.executionId)
         IN  /\ Len(childExecutions) = Len(children[e.entryId])
             /\ \A i \in 1 .. Len(childExecutions) :
                  childExecutions[i].entryId = children[e.entryId][i]
             /\ e.result.success =
                  (IF \A i \in 1 .. Len(childExecutions) :
                        childExecutions[i].result.success = "true"
                     THEN "true" ELSE "false")
  /\ \A i \in 1 .. Len(calls) :
       (calls[i].status = "resolved" /\ Type(calls[i].entry) = "container") =>
         \E e \in AllExecutions :
           e.executionId = calls[i].root /\ e.result = calls[i].value

\* Container c1 was executed twice: once all its children succeeded, once not.
C7_Witness ==
  /\ Len(calls) = 2
  /\ calls[1].status = "resolved" /\ calls[1].entry = "c1"
  /\ calls[1].value.success = "true"
  /\ \A i \in 1 .. Len(ChildExecutions(calls[1].root)) :
       ChildExecutions(calls[1].root)[i].result.success = "true"
  /\ calls[2].status = "resolved" /\ calls[2].entry = "c1"
  /\ calls[2].value.success = "false"
  /\ \E i \in 1 .. Len(ChildExecutions(calls[2].root)) :
       ChildExecutions(calls[2].root)[i].result.success = "false"

\* C8: no executeEntry call is rejected, and one that has settled has resolved with
\* an object.
C8_NeverRejects ==
  \A i \in 1 .. Len(calls) :
    /\ calls[i].status # "rejected"
    /\ calls[i].status = "resolved" => calls[i].value.kind = "object"

\* A call has resolved after its script gave null (only then is its result {}),
\* another after the runner rejected.
C8_Witness ==
  /\ Len(calls) = 2
  /\ calls[1].status = "resolved" /\ calls[1].value = EmptyObject
  /\ calls[2].status = "resolved" /\ calls[2].value.errorMessage = "Script failed"

\* A result with success true or false, and with an errorMessage if it is false.
Normalized(result) ==
  /\ result.kind = "object"
  /\ result.success \in {"true", "false"}
  /\ result.success = "false" => result.errorMessage # Undefined

\* C9: what an executeEntry call resolves with, and every result written to the log,
\* has a boolean success, and an errorMessage when success is false.
C9_ResultNormalized ==
  /\ \A i \in 1 .. Len(calls) :
       calls[i].status = "resolved" => Normalized(calls[i].value)
  /\ \A e \in AllExecutions : e.result # NullValue => Normalized(e.result)

\* The invocations that have not returned.
ActiveSeqs ==
  UNION {{calls[i].frames[j].executionId.seq : j \in 1 .. Len(calls[i].frames)} :
           i \in 1 .. Len(calls)}

\* C10: once all of two or more executeEntry calls have settled, the execution stack
\* is empty; and an invocation that has returned has run the pop once, one that has
\* not returned has not run it.
C10_StackEmptyAfterBothSettle ==
  /\ (Len(calls) >= 2 /\ \A i \in 1 .. Len(calls) : Settled(i)) =>
       executionStack = <<>>
  /\ \A seq \in 1 .. Len(pops) :
       pops[seq] = IF seq \in ActiveSeqs THEN 0 ELSE 1

\* Two calls have settled, the second made while the first was in flight, the
\* first over the path of an error (its result is {}), with invocations under them.
C10_Witness ==
  /\ Len(calls) = 2
  /\ Settled(1) /\ Settled(2)
  /\ calls[2].concurrent
  /\ calls[1].value = EmptyObject
  /\ Len(pops) > 2
  /\ executionStack = <<>>

\* C11: at most one top-level execution is in flight at any time, the play buttons
\* being the only callers of executeEntry.
C11_SingleFlight ==
  Cardinality({i \in 1 .. Len(calls) : InFlight(i)}) <= 1

\* The records stored in the log.
StoredCount == GetExecutionCount(Logs(rootExecutions, executionsByParent))

\* C12: the number of stored records, the root list's and all buckets' together, is
\* at most maxLogs after every addLog call.
C12_AtMostMaxLogs == StoredCount <= MaxLogs

\* C13: every key of executionsByParent is the execution id of a stored record.
C13_NoOrphanBuckets ==
  \A k \in DOMAIN executionsByParent :
    \E e \in AllExecutions : e.executionId = k

\* C14: the record of an executeEntry invocation that has returned holds a result,
\* and a result once written to a record is never replaced by another.
C14_ResultWrittenOnce ==
  [][/\ \A e \in AllExecutions' :
          e.executionId.seq \notin ActiveSeqs' => e.result # NullValue
     /\ \A e \in AllExecutions, f \in AllExecutions' :
          (e.result # NullValue /\ f.executionId = e.executionId) =>
            f.result = e.result]_vars

\* ------------------------------------------------------------------ engine claims

\* The promises other than p are left as they were by the step.
OthersUntouched(p) ==
  /\ Len(promises') = Len(promises)
  /\ \A q \in 1 .. Len(promises) : q # p => promises'[q] = promises[q]

\* C15: a 'result' response with id k resolves the promise pending under k, which no
\* step settled before, and removes k from the pending map, leaving every other
\* promise and pending request as it was; a response whose id is not pending changes
\* nothing; and no promise is ever settled twice.
C15_ResultSettlesItsOwn ==
  [][/\ lastEvent'.op = "result" =>
          LET k == lastEvent'.id
          IN  IF k \in DOMAIN pendingExecutions
                THEN /\ pendingExecutions' = MapDelete(pendingExecutions, k)
                     /\ promises[pendingExecutions[k]].id = k
                     /\ promises[pendingExecutions[k]].state = "pending"
                     /\ promises'[pendingExecutions[k]].state = "resolve"
                     /\ OthersUntouched(pendingExecutions[k])
                ELSE /\ pendingExecutions' = pendingExecutions
                     /\ promises' = promises
     /\ \A p \in 1 .. Len(promises') : promises'[p].settles <= 1]_vars

\* C15's case: with two requests pending, the answer to the later one has come first
\* and resolved its promise; the earlier one is still pending.
C15_Witness ==
  /\ lastEvent.op = "result"
  /\ lastEvent.id \in lastEvent.before
  /\ promises[PromiseOf(lastEvent.id)].state = "resolve"
  /\ \E j \in DOMAIN pendingExecutions :
       /\ j < lastEvent.id
       /\ promises[pendingExecutions[j]].state = "pending"

\* The promises of the requests pending.
PendingPromises == {pendingExecutions[id] : id \in DOMAIN pendingExecutions}

\* C16: an 'error' message with the id of a pending request rejects the promise of that
\* request, removes the request and leaves every other promise and pending request as
\* it was; an 'error' message without an id rejects the promise of every pending
\* request, leaves the other promises as they were and the pending map empty.
C16_ErrorRejectsOneOrAll ==
  [][lastEvent'.op = "error" =>
       LET k == lastEvent'.id
       IN  IF k # 0
             THEN k \in DOMAIN pendingExecutions =>
                    /\ promises'[pendingExecutions[k]].state = "reject"
                    /\ pendingExecutions' = MapDelete(pendingExecutions, k)
                    /\ OthersUntouched(pendingExecutions[k])
             ELSE /\ pendingExecutions' = EmptyMap
                  /\ Len(promises') = Len(promises)
                  /\ \A p \in 1 .. Len(promises) :
                       IF p \in PendingPromises
                         THEN promises[p].state = "pending" /\ promises'[p].state = "reject"
                         ELSE promises'[p] = promises[p]]_vars

\* C16's cases: of three requests, one was rejected by an 'error' message with its id
\* while the other two stayed pending, and then an 'error' message without an id has
\* rejected those two.
C16_Witness ==
  /\ lastEvent.op = "error"
  /\ lastEvent.id = 0
  /\ Cardinality(lastEvent.before) = 2
  /\ pendingExecutions = EmptyMap
  /\ \E p \in 1 .. Len(promises) :
       /\ promises[p].by = "error"
       /\ promises[p].state = "reject"
       /\ \A q \in 1 .. Len(promises) :
            q # p => promises[q].by = "rejectAll" /\ promises[q].id \in lastEvent.before

\* C17: once the channel has failed (the worker's error event, or an 'error' message
\* without an id), no request is pending from before, and every promise
\* executeScript returns from then on is on the direct path, with no request posted
\* to the worker.
C17_DisabledAfterChannelFailure ==
  \A p \in 1 .. Len(promises) :
    /\ promises[p].late => promises[p].path = "direct" /\ promises[p].id \notin requests
    /\ (lastEvent.failed /\ ~promises[p].late /\ promises[p].path = "worker") =>
         promises[p].state # "pending" \/ promises[p].abandoned

\* How promise p has settled.
OutcomeOf(p) == [kind |-> promises[p].state, value |-> promises[p].value]

\* C18: a promise of the worker path settled by the 'result' message that the worker
\* posts for its script has settled as the direct path settles for that script: resolved with the same
\* value, or rejected with the script's error.
C18_WorkerPathAsDirectPath ==
  \A p \in 1 .. Len(promises) :
    promises[p].by = "result" =>
      OutcomeOf(p) = DirectOutcome(promises[p].script)

\* C19: right after terminate() the engine has no worker and no pending request, and
\* a promise that was pending when terminate() was called is never settled: it stays
\* pending, its resolve and reject never called, whatever comes afterwards.
C19_TerminateAbandons ==
  /\ lastEvent.op = "terminate" => worker = NULL /\ pendingExecutions = EmptyMap
  /\ \A p \in 1 .. Len(promises) :
       promises[p].abandoned =>
         /\ promises[p].state = "pending"
         /\ promises[p].settles = 0
         /\ worker = NULL
         /\ promises[p].id \notin DOMAIN pendingExecutions

\* C19's case: terminate() was called with a request pending, and the worker's answer
\* to that request has been handled since.
C19_Witness ==
  \E p \in 1 .. Len(promises) :
    /\ promises[p].abandoned
    /\ lastEvent.op = "result"
    /\ lastEvent.id = promises[p].id

\* C20: in every state, a second terminate() after a first one does not throw and
\* leaves what the first one left: no worker, no pending request and, for the
\* execution service, an empty stack. So for the engine's terminate(), the script
\* service's and the execution service's.
C20_TerminateTwice ==
  /\ LET once == EngineTerminate(Services)
     IN  /\ ~once.threw /\ once.worker = NULL /\ once.pendingExecutions = EmptyMap
         /\ EngineTerminate(once) = once
  /\ LET once == ScriptServiceTerminate(Services)
     IN  /\ ~once.threw /\ once.worker = NULL /\ once.pendingExecutions = EmptyMap
         /\ ScriptServiceTerminate(once) = once
  /\ LET once == EntryServiceTerminate(Services)
     IN  /\ ~once.threw /\ once.worker = NULL /\ once.pendingExecutions = EmptyMap
         /\ once.executionStack = <<>>
         /\ EntryServiceTerminate(once) = once

\* C20's case: terminate() has been called on a service with a worker while an
\* execution was awaiting the worker, and can be called again.
C20_Witness ==
  /\ worker = NULL
  /\ ~workerDisabled
  /\ pendingExecutions = EmptyMap
  /\ executionStack = <<>>
  /\ Services = EntryServiceTerminate(Services)
  /\ \E i \in 1 .. Len(calls) :
       InFlight(i) /\ Top(calls[i].frames).phase = "awaitWorker"

\* C21: however often initialize() has been called, the only live worker is the one
\* the engine refers to: one if it has a worker, none if it has none.
C21_OneLiveWorker == liveWorkers = IF worker = NULL THEN 0 ELSE 1

\* The sequence numbers of the records of a list are strictly increasing.
Increasing(executions) ==
  \A i, j \in 1 .. Len(executions) :
    i < j => executions[i].executionId.seq < executions[j].executionId.seq

\* C22: the invocations made so far, each with its record, have been given the
\* sequence numbers 1, 2, ... up to the service's counter, one each, so no two have
\* the same execution id; and the numbers increase in the order the invocations
\* started: along the root list, along every list of children, and from a container's
\* invocation to those of its children.
C22_ExecutionIdsNew ==
  /\ {e.executionId.seq : e \in AllExecutions} = 1 .. executionSequence
  /\ StoredCount = executionSequence
  /\ Increasing(rootExecutions)
  /\ \A k \in DOMAIN executionsByParent :
       /\ Increasing(executionsByParent[k])
       /\ \A i \in 1 .. Len(executionsByParent[k]) :
            k.seq < executionsByParent[k][i].executionId.seq

\* C22's case: two top-level calls, the second made while the first was in flight,
\* both of containers with children executed under them.
C22_Witness ==
  /\ Len(calls) = 2
  /\ calls[2].concurrent
  /\ executionSequence >= 5
  /\ \A i \in 1 .. 2 : calls[i].root \in DOMAIN executionsByParent

\* The entries of the records of a list, in the list's order.
EntriesOf(executions) == [i \in 1 .. Len(executions) |-> executions[i].entryId]

\* The container invocations that have returned, by their records.
ReturnedContainers ==
  {e \in AllExecutions : e.entryType = "container" /\ e.executionId.seq \notin ActiveSeqs}

\* C26: when the execution of a container has returned, the records made under it
\* are those of its children, one for each child and in the children's order,
\* whatever the results of the children were.
C26_EveryChildExecuted ==
  \A e \in ReturnedContainers :
    EntriesOf(ChildExecutions(e.executionId)) = children[e.entryId]

\* C26's case: a container has returned whose first child's runner call was
\* rejected, and whose later children were executed after it.
C26_Witness ==
  \E e \in ReturnedContainers :
    LET made == ChildExecutions(e.executionId)
    IN  /\ Len(made) >= 2
        /\ made[1].result.kind = "object"
        /\ made[1].result.success = "false"
        /\ made[1].result.errorMessage = "Script failed"
        /\ made[Len(made)].result # NullValue

\* C27: a drop handler never calls moveEntry or reorderEntry for a dragged container
\* with a target container that is the dragged container or one of its descendants.
C27_NoDropIntoItself ==
  (lastDrop.op \in {"moveEntry", "reorderEntry"} /\ Type(lastDrop.entry) = "container") =>
    lastDrop.target \notin lastDrop.descendants

\* The root records of the execution executionId.
RootRecords(executionId) ==
  {i \in 1 .. Len(rootExecutions) : rootExecutions[i].executionId = executionId}

\* C28: once root has been created and Hello and World added at 0 and 1, every
\* execution of root that has returned has one root record, for root and with
\* success true, and exactly two child records under its execution id, named Hello
\* then World, each with success true.
C28_HelloThenWorld ==
  \A i \in 1 .. Len(calls) :
    ({"c1", "b1", "b2"} \subseteq entriesById /\ calls[i].entry = "c1"
       /\ calls[i].status # "inflight")
    => /\ Cardinality(RootRecords(calls[i].root)) = 1
       /\ \A r \in RootRecords(calls[i].root) :
            /\ rootExecutions[r].entryId = "c1"
            /\ rootExecutions[r].result.success = "true"
       /\ LET records == ChildExecutions(calls[i].root)
          IN  /\ Len(records) = 2
              /\ records[1].entryName = "Hello"
              /\ records[2].entryName = "World"
              /\ \A k \in 1 .. 2 :
                   /\ records[k].parentExecutionId = calls[i].root
                   /\ records[k].result.success = "true"

C28_Witness ==
  \E i \in 1 .. Len(calls) :
    /\ {"c1", "b1", "b2"} \subseteq entriesById
    /\ calls[i].entry = "c1"
    /\ calls[i].status = "resolved"
    /\ calls[i].value.success = "true"
    /\ Len(ChildExecutions(calls[i].root)) = 2

\* Whether the result of a record has been written (addLog makes it null).
Written(execution) == execution.result # NullValue

\* C29: the records under a container's record are those of the container's
\* children in list order, each made after the container's and after the child's
\* before it; and a container's record has its result only when every record under
\* it has its result.
C29_PreOrderAndParentLast ==
  \A e \in AllExecutions :
    e.entryType = "container" =>
      LET records == ChildExecutions(e.executionId)
      IN  /\ Len(records) <= Len(children[e.entryId])
          /\ \A k \in 1 .. Len(records) :
               /\ records[k].entryId = children[e.entryId][k]
               /\ records[k].executionId.seq > e.executionId.seq
               /\ k > 1 => records[k].executionId.seq > records[k - 1].executionId.seq
          /\ Written(e) => /\ Len(records) = Len(children[e.entryId])
                           /\ \A k \in 1 .. Len(records) : Written(records[k])

\* C30: under disciplined calls the parent map and the children arrays agree (a child
\* is in the children of the parent it maps to exactly once, and every element of a
\* registered container's children maps to that container), and no entry is its own
\* ancestor.
C30_DisciplineKeepsAgreement ==
  /\ \A id \in Ids :
       parentIdById[id] # NULL =>
         /\ parentIdById[id] \in entriesById \cap Containers
         /\ Occurrences(children[parentIdById[id]], id) = 1
  /\ \A c \in entriesById \cap Containers :
       \A k \in 1 .. Len(children[c]) : parentIdById[children[c][k]] = c
  /\ \A id \in entriesById : ~IsOwnAncestor(children, id)

\* Every call made so far has resolved, and the execution stack is empty.
AllResolved ==
  /\ \A i \in 1 .. Len(calls) : calls[i].status = "resolved"
  /\ executionStack = <<>>

\* C31: without terminate(), and with every request answered, the calls made all
\* resolve in the end and the execution stack is empty from then on.
C31_EveryCallResolves == <>[]AllResolved

C31_Witness ==
  /\ Len(calls) = MaxCalls
  /\ \E i \in 1 .. Len(calls) : calls[i].entry = "c1" /\ calls[i].concurrent
  /\ AllResolved

\* The array s without the element id.
Without(s, id) == SelectSeq(s, LAMBDA x : x # id)

\* C32: for a child at index c of a registered container with n children and a
\* target 0 <= newIndex <= n, reorderEntry returns true, the child ends at index
\* newIndex - 1 if newIndex > c and at newIndex otherwise, the other children keep
\* their order, and newIndex = c and newIndex = c + 1 leave the array as it was.
C32_ReorderFinalIndex ==
  \A p \in entriesById \cap Containers :
    \A k \in 1 .. Len(children[p]), newIndex \in 0 .. Len(children[p]) :
      LET id == children[p][k]
          c == k - 1
          res == ReorderEntry(Registry, p, id, newIndex)
          final == IF newIndex > c THEN newIndex - 1 ELSE newIndex
      IN  Occurrences(children[p], id) = 1 =>
            /\ res.ret = "true"
            /\ Len(res.ch[p]) = Len(children[p])
            /\ res.ch[p][final + 1] = id
            /\ Without(res.ch[p], id) = Without(children[p], id)
            /\ newIndex \in {c, c + 1} => res.ch[p] = children[p]
            /\ \A q \in Containers \ {p} : res.ch[q] = children[q]

C32_Witness ==
  /\ lastCall.op = "reorderEntry" /\ lastCall.ret = "true" /\ lastCall.id = "b1"
  /\ children["c1"] = <<"c2", "b2", "b1">>

\* C33: addEntry with a registered container as parent and 0 <= index <=
\* children.length returns true, and then the entry is registered, its parent in
\* the map is parentId, it is at position index of the parent's children, and the
\* children that were there keep their order; with a parent that is not registered
\* or is a block it returns false and registers nothing (the registry is as before).
C33_AddEntryAsSpecified ==
  \A parentId \in Ids, entry \in Ids :
    IF parentId \in entriesById \cap Containers
      THEN \A index \in 0 .. Len(children[parentId]) :
             LET res == AddEntry(Registry, parentId, entry, index)
             IN  /\ res.ret = "true"
                 /\ entry \in res.ent
                 /\ res.par[entry] = parentId
                 /\ res.ch[parentId][index + 1] = entry
                 /\ SpliceRemove(res.ch[parentId], index) = children[parentId]
                 /\ \A q \in Containers \ {parentId} : res.ch[q] = children[q]
      ELSE \A index \in Indexes :
             LET res == AddEntry(Registry, parentId, entry, index)
             IN  /\ res.ret = "false"
                 /\ res.ent = entriesById
                 /\ res.par = parentIdById
                 /\ res.ch = children

C33_Witness ==
  /\ lastCall.op = "addEntry" /\ lastCall.ret = "true" /\ lastCall.id = "b1"
  /\ children["c1"] = <<"c2", "b1">>
  /\ parentIdById["b1"] = "c1"

\* Whether id is linked to a parent consistently: the map gives it a registered
\* container, whose children hold it once, and no other children array holds it.
Linked(id) ==
  /\ id \in entriesById
  /\ parentIdById[id] \in entriesById \cap Containers
  /\ \A c \in Containers :
       Occurrences(children[c], id) = IF c = parentIdById[id] THEN 1 ELSE 0

\* C34: moveEntry(id, null, index) on a registered entry linked to a parent returns
\* true, and then the entry has no parent in the map and is in no children array,
\* while the entry map, the parents of the other entries and the other children
\* arrays (those of the entry and its subtree among them) are as before.
C34_MoveToNull ==
  \A id \in Ids, index \in Indexes :
    Linked(id) =>
      LET res == MoveEntry(Registry, id, NULL, index)
          p == parentIdById[id]
      IN  /\ res.ret = "true"
          /\ res.par[id] = NULL
          /\ \A c \in Containers : Occurrences(res.ch[c], id) = 0
          /\ res.ent = entriesById
          /\ \A other \in Ids \ {id} : res.par[other] = parentIdById[other]
          /\ res.ch[p] = Without(children[p], id)
          /\ \A c \in Containers \ {p} : res.ch[c] = children[c]

C34_Witness ==
  /\ lastCall.op = "moveEntry" /\ lastCall.ret = "true" /\ lastCall.id = "c2"
  /\ "c2" \in entriesById /\ parentIdById["c2"] = NULL
  /\ children["c1"] = <<>> /\ children["c2"] = <<"b1">>
  /\ parentIdById["b1"] = "c2"

\* C35: removeEntry(id) for an id without a parent in the map (a root container, or
\* an id that is not registered) returns false and leaves the entry map, the parent
\* map and the children arrays as they were.
C35_RemoveOfParentless ==
  \A id \in Ids :
    parentIdById[id] = NULL =>
      LET res == RemoveEntry(Registry, id)
      IN  /\ res.ret = "false"
          /\ res.ent = entriesById
          /\ res.par = parentIdById
          /\ res.ch = children

C35_Witness ==
  /\ lastCall.op = "removeEntry" /\ lastCall.ret = "false" /\ lastCall.id = "c1"
  /\ "c1" \in entriesById /\ parentIdById["c1"] = NULL
  /\ children["c1"] = <<"c2", "b1">>
  /\ parentIdById["c2"] = "c1" /\ parentIdById["b1"] = "c1"

\* The execution ids of the records the log holds.
LoggedIds == {e.executionId : e \in AllExecutions}

\* The results executeEntry has for updateLog.
LoggedResults == {Object("true", ""), Object("false", "Unknown error occurred.")}

\* C36: updateLog for an execution id that no record of the log has leaves the log
\* as it is (no record and no bucket is made), and the executeEntry calls whose
\* records are gone settle by resolving, as the others do.
C36_UpdateOfMissingIgnored ==
  /\ \A seq \in 1 .. executionSequence, entry \in Ids, result \in LoggedResults :
       ExecutionId(seq, entry) \notin LoggedIds =>
         UpdateLog(Logs(rootExecutions, executionsByParent),
                   ExecutionId(seq, entry), result)
           = Logs(rootExecutions, executionsByParent)
  /\ \A i \in 1 .. Len(calls) : Settled(i) => calls[i].status = "resolved"

C36_Witness ==
  \E i \in 1 .. Len(calls) :
    /\ calls[i].entry = "c1"
    /\ calls[i].status = "resolved"
    /\ calls[i].root \notin LoggedIds
    /\ rootExecutions = <<>>
    /\ executionsByParent # EmptyMap

\* isExecuting() of the execution service
ServiceIsExecuting == Len(executionStack) > 0

\* The executeEntry invocations that have started and not settled, nested ones
\* included, in the calls from the i-th on.
RECURSIVE InvocationsFrom(_)
InvocationsFrom(i) ==
  IF i > Len(calls) THEN 0 ELSE Len(calls[i].frames) + InvocationsFrom(i + 1)

\* C37: while terminate() is not called, the execution stack is as long as the
\* number of executeEntry invocations in flight, so that isExecuting() is true
\* exactly when there is one.
C37_StackCountsInvocations ==
  /\ Len(executionStack) = InvocationsFrom(1)
  /\ ServiceIsExecuting <=> InvocationsFrom(1) > 0

C37_Witness ==
  /\ Len(calls) = 2
  /\ InFlight(1) /\ InFlight(2)
  /\ Len(calls[1].frames) = 3
  /\ Len(executionStack) = 4

\* C38: an execution started after terminate() keeps isExecuting() true for as long
\* as it is in flight, whatever the execution that was in flight at terminate() does.
C38_NewExecutionKeepsStack ==
  (Len(calls) = 2 /\ InFlight(2)) => ServiceIsExecuting

\* Index arguments far out of range on both sides.
WideIndexes == (0 - (MaxChildren + 3)) .. (MaxChildren + 3)

\* C39: reorderEntry with any index on a child of a registered container returns
\* true and leaves the container's children a permutation of what they were, and
\* the entry map, the parent map and the other children arrays as they were; with an
\* id that is not among the container's children it returns false and changes
\* nothing.
C39_ReorderKeepsEntries ==
  \A p \in entriesById \cap Containers, id \in Ids, index \in WideIndexes :
    LET res == ReorderEntry(Registry, p, id, index)
    IN  /\ res.ent = entriesById
        /\ res.par = parentIdById
        /\ \A q \in Containers \ {p} : res.ch[q] = children[q]
        /\ IF Occurrences(children[p], id) > 0
             THEN /\ res.ret = "true"
                  /\ Len(res.ch[p]) = Len(children[p])
                  /\ \A x \in Ids :
                       Occurrences(res.ch[p], x) = Occurrences(children[p], x)
             ELSE /\ res.ret = "false"
                  /\ res.ch[p] = children[p]

C39_Witness ==
  /\ lastCall.op = "reorderEntry" /\ lastCall.ret = "true" /\ lastCall.id = "c2"
  /\ children["c1"] = <<"b1", "c2">>
  /\ ReorderEntry(Registry, "c1", "c2", 0 - 1).ch["c1"] = <<"c2", "b1">>
  /\ ReorderEntry(Registry, "c1", "b1", MaxChildren + 3).ch["c1"] = <<"c2", "b1">>

\* C40 as claimed: after any sequence of calls, getAllDescendantIds ends for every id.
C40_DescendantsAlwaysEnd ==
  \A id \in Ids : GetAllDescendantIdsEnds(Registry, id)

\* C40 as amended: after any sequence of calls in which no addEntry or moveEntry
\* call was given a target parent that is the entry itself or one of
\* getAllDescendantIds(entry), getAllDescendantIds ends for every id.
C40_DescendantsEndWhenCallersCheck ==
  callsChecked => \A id \in Ids : GetAllDescendantIdsEnds(Registry, id)

C40_Witness ==
  /\ callsChecked
  /\ lastCall.op = "moveEntry" /\ lastCall.ret = "true" /\ lastCall.id = "b1"
  /\ children["c1"] = <<"c2">> /\ children["c2"] = <<"b1">>
  /\ GetAllDescendantIds(Registry, "c1") = {"c1", "c2", "b1"}

====
